---- MODULE Spec2Model ----
(***************************************************************************)
(* Model of the modimizer package: the sequence hasher and its modimizer   *)
(* iterator (seqhash.c), the modset (modset.c) and the read set with its   *)
(* inverse index and overlap engine (modasm.c).                            *)
(***************************************************************************)
EXTENDS Integers, Sequences, FiniteSets, TLC

(***************************************************************************)
(* Bounds of the model.                                                    *)
(***************************************************************************)
MaxK == 3          \* k-mer lengths 1..MaxK
MaxW == 3          \* moduli w in 1..MaxW
MaxLen == 4        \* sequences of 0..MaxLen bases
TableBits == 5     \* bits of the modset table (the program asks for 20..34)
MaxOps == 3        \* modset operations in one run

\* seeds whose factor1 is tabulated below
Seeds == {1, 2, 17}

Bases == 0..3

Min(a, b) == IF a < b THEN a ELSE b

(***************************************************************************)
(* 64-bit arithmetic.  A U64 that does not fit a model integer is kept as  *)
(* four 16-bit limbs, least significant first.                             *)
(***************************************************************************)
Limb == 2 ^ 16

\* (x * f) mod 2^64 for a small x and a U64 f given by its limbs
Mul64(x, f) ==
  LET c0 == x * f[1]
      c1 == x * f[2] + (c0 \div Limb)
      c2 == x * f[3] + (c1 \div Limb)
      c3 == x * f[4] + (c2 \div Limb)
  IN  << c0 % Limb, c1 % Limb, c2 % Limb, c3 % Limb >>

\* p >> n for a U64 p given by its limbs and 48 <= n < 64
Shr64(p, n) == p[4] \div (2 ^ (n - 48))

(***************************************************************************)
(* Seqhash                                                                 *)
(***************************************************************************)
\* srandom (seed) ; (random() << 32) | random() | 0x01, as glibc computes it
Factor1(seed) ==
  CASE seed = 1  -> << 9159, 12923, 17767, 27531 >>    \* 0x6b8b4567327b23c7
    [] seed = 2  -> << 31103, 26531, 38906, 22969 >>   \* 0x59b997fa67a3797f
    [] seed = 17 -> << 45997, 60, 35769, 18736 >>      \* 0x49308bb9003cb3ad

seqhashCreate(k, w, seed) ==
  [ seed |-> seed, k |-> k, w |-> w,
    mask |-> 2 ^ (2 * k) - 1,
    factor1 |-> Factor1(seed),
    shift1 |-> 64 - 2 * k,
    patternRC |-> [ i \in Bases |-> (3 - i) * 2 ^ (2 * (k - 1)) ] ]

\* seqhash (sh, k) = (k * sh->factor1) >> sh->shift1
seqhash(h, x) == Shr64(Mul64(x, h.factor1), h.shift1)

(***************************************************************************)
(* SeqhashRCiterator.  s counts the bases consumed (the offset of si->s    *)
(* from the start of the sequence), sEnd is the sequence length.  Only     *)
(* element 0 of hashBuf and fBuf is used by the modimizer iterator.        *)
(***************************************************************************)
\* hashRC as a pair << hash, isForward >>
hashRC(h, it) ==
  LET hashF == seqhash(h, it.h)
      hashR == seqhash(h, it.hRC)
  IN  IF hashF < hashR THEN << hashF, TRUE >> ELSE << hashR, FALSE >>

\* the update of h and hRC in advanceHashRC, for s < sEnd
advanceHashRC(h, it, sq) ==
  LET b == sq[it.s + 1]
  IN  [ it EXCEPT !.h = ((it.h * 4) % (h.mask + 1)) + b,
                  !.hRC = (it.hRC \div 4) + h.patternRC[b] ]

\* the loop  while ((hash % w) && si->s < si->sEnd)
\*             { hash = advanceHashRC (si, si->fBuf) ; ++si->iMin ; ++si->s ; }
\* followed by  if (!(hash % w)) *si->hashBuf = hash ; else si->isDone = true ;
RECURSIVE modScan(_, _, _, _)
modScan(h, it, sq, hash) ==
  IF hash % h.w # 0 /\ it.s < it.sEnd
    THEN LET a == advanceHashRC(h, it, sq)
             r == hashRC(h, a)
         IN  modScan(h, [ a EXCEPT !.fBuf = r[2], !.iMin = it.iMin + 1,
                                   !.s = it.s + 1 ], sq, r[1])
    ELSE IF hash % h.w = 0 THEN [ it EXCEPT !.hashBuf = hash ]
                           ELSE [ it EXCEPT !.isDone = TRUE ]

\* the priming loop over the first k bases
RECURSIVE primeHash(_, _, _, _)
primeHash(h, it, sq, i) ==
  IF i < h.k
    THEN LET b == sq[it.s + 1]
         IN  primeHash(h, [ it EXCEPT !.h = it.h * 4 + b,
                                      !.hRC = (it.hRC \div 4) + h.patternRC[b],
                                      !.s = it.s + 1 ], sq, i + 1)
    ELSE it

modRCiterator(h, sq) ==
  LET si0 == [ s |-> 0, sEnd |-> Len(sq), h |-> 0, hRC |-> 0, hashBuf |-> 0,
               fBuf |-> FALSE, iMin |-> 0, isDone |-> FALSE ]
  IN  IF Len(sq) < h.k
        THEN [ si0 EXCEPT !.isDone = TRUE ]
        ELSE LET p == primeHash(h, si0, sq, 0)
                 r == hashRC(h, p)
             IN  modScan(h, [ p EXCEPT !.fBuf = r[2] ], sq, r[1])

\* mutant: the forward k-mer whatever the orientation
modKmerFwd(it) == it.h

\* the k-mer modRCnext hands back
modKmer(it) == IF it.fBuf THEN it.h ELSE it.hRC

\* modRCnext: << returned bool, iterator after the call, kmer, pos, isF >>
modRCnext(h, it, sq) ==
  IF it.isDone
    THEN << FALSE, it, 0, 0, FALSE >>
    ELSE LET kmer == modKmer(it)
             pos == it.iMin
             isF == it.fBuf
         IN  IF it.s >= it.sEnd
               THEN << TRUE, [ it EXCEPT !.isDone = TRUE ], kmer, pos, isF >>
               ELSE LET a == advanceHashRC(h, it, sq)
                        r == hashRC(h, a)
                        n == [ a EXCEPT !.fBuf = r[2], !.iMin = it.iMin + 1,
                                        !.s = it.s + 1 ]
                    IN  << TRUE, modScan(h, n, sq, r[1]), kmer, pos, isF >>

(***************************************************************************)
(* The minimizer iterator.  hashBuf and fBuf are the circular buffers of   *)
(* w cells, base the sequence position of cell 0 of the current lap and    *)
(* iStart the cell the current window starts at.  U64MAX is only ever      *)
(* compared with hashes, which have 2k < 64 bits: it is held as a number   *)
(* above every hash of the model.                                          *)
(***************************************************************************)
U64MAX == 2 ^ 30

\* si->hashBuf [i] = advanceHashRC (si, &si->fBuf [i]) followed by ++si->s
minAdvance(h, it, sq, i) ==
  IF it.s < it.sEnd
    THEN LET a == advanceHashRC(h, it, sq)
             r == hashRC(h, a)
         IN  [ a EXCEPT !.hashBuf[i] = r[1], !.fBuf[i] = r[2], !.s = it.s + 1 ]
    ELSE [ it EXCEPT !.hashBuf[i] = U64MAX, !.s = it.s + 1 ]

\* the loop of minimizerRCiterator that stores the hashes 1..w-1 and sets iMin
RECURSIVE minFirstWindow(_, _, _, _, _)
minFirstWindow(h, it, sq, i, min) ==
  IF i >= h.w THEN it
  ELSE LET n == minAdvance(h, it, sq, i)
       IN  IF n.hashBuf[i] < min
             THEN minFirstWindow(h, [ n EXCEPT !.iMin = i ], sq, i + 1, n.hashBuf[i])
             ELSE minFirstWindow(h, n, sq, i + 1, min)

minimizerRCiterator(h, sq) ==
  LET si0 == [ s |-> 0, sEnd |-> Len(sq), h |-> 0, hRC |-> 0,
               hashBuf |-> [ i \in 0..(h.w - 1) |-> 0 ],
               fBuf |-> [ i \in 0..(h.w - 1) |-> FALSE ],
               base |-> 0, iStart |-> 0, iMin |-> 0, isDone |-> FALSE ]
  IN  IF Len(sq) < h.k
        THEN [ si0 EXCEPT !.isDone = TRUE ]
        ELSE LET p == primeHash(h, si0, sq, 0)
                 r == hashRC(h, p)
             IN  minFirstWindow(h, [ p EXCEPT !.fBuf[0] = r[2] ], sq, 1, r[1])

\* for (i = from ; i <= to ; ++i, ++si->s) si->hashBuf [i] = advanceHashRC (...)
RECURSIVE minRefill(_, _, _, _, _)
minRefill(h, it, sq, i, to) ==
  IF i > to THEN it ELSE minRefill(h, minAdvance(h, it, sq, i), sq, i + 1, to)

\* for (i = 0 ; i < w ; ++i) if (hashBuf [i] < min) { min = hashBuf [i] ; iMin = i ; }
RECURSIVE minScan(_, _, _, _)
minScan(h, it, i, min) ==
  IF i >= h.w THEN it
  ELSE IF it.hashBuf[i] < min
    THEN minScan(h, [ it EXCEPT !.iMin = i ], i + 1, it.hashBuf[i])
    ELSE minScan(h, it, i + 1, min)

\* minimizerRCnext: << returned bool, iterator after the call, u, pos, isF >>
minimizerRCnext(h, it, sq) ==
  IF it.isDone
    THEN << FALSE, it, 0, 0, FALSE >>
    ELSE LET u == it.hashBuf[it.iMin]
             pos == it.base + it.iMin + (IF it.iMin < it.iStart THEN h.w ELSE 0)
             isF == it.fBuf[it.iMin]
         IN  IF it.s >= it.sEnd
               THEN << TRUE, [ it EXCEPT !.isDone = TRUE ], u, pos, isF >>
               ELSE LET a == IF it.iMin >= it.iStart
                               THEN minRefill(h, it, sq, it.iStart, it.iMin)
                               ELSE minRefill(h,
                                      [ minRefill(h, it, sq, it.iStart, h.w - 1)
                                          EXCEPT !.base = @ + h.w ],
                                      sq, 0, it.iMin)
                        b == IF a.iMin + 1 = h.w
                               THEN [ a EXCEPT !.iStart = 0, !.base = @ + h.w ]
                               ELSE [ a EXCEPT !.iStart = a.iMin + 1 ]
                        c == IF b.hashBuf[b.iMin] # U64MAX
                               THEN minScan(h, b, 0, U64MAX)
                               ELSE minScan(h, [ b EXCEPT !.iMin = 0 - 1 ], 0, u)
                    IN  << TRUE, [ c EXCEPT !.isDone = (c.iMin = 0 - 1) ], u, pos, isF >>

(***************************************************************************)
(* The reverse complement of a sequence, as the caller of the iterator     *)
(* sees the other strand.                                                  *)
(***************************************************************************)
RevComp(sq) == [ i \in 1..Len(sq) |-> 3 - sq[Len(sq) + 1 - i] ]

RECURSIVE SeqsOfLen(_)
SeqsOfLen(n) ==
  IF n = 0 THEN { << >> }
  ELSE { Append(t, b) : t \in SeqsOfLen(n - 1), b \in Bases }

SeqsUpTo(n) == UNION { SeqsOfLen(m) : m \in 0..n }

(***************************************************************************)
(* Modset.  The arrays are functions from 0: index over the table slots,   *)
(* value, depth and info over 0..size-1.  A cell of memory that malloc     *)
(* handed out and nothing wrote yet holds Junk; an operation that reads    *)
(* such a cell reads an arbitrary value.                                   *)
(***************************************************************************)
U16MAX == 65535

Junk == 0 - 1

\* what a read of cell c yields when indeterminate memory reads as g
Rd(c, g) == IF c = Junk THEN g ELSE c

\* bitwise or of two naturals
RECURSIVE BitOr(_, _)
BitOr(a, b) ==
  IF a = 0 THEN b
  ELSE IF b = 0 THEN a
  ELSE (IF a % 2 = 1 \/ b % 2 = 1 THEN 1 ELSE 0) + 2 * BitOr(a \div 2, b \div 2)

tableSize(m) == 2 ^ m.tableBits

modsetCreate(h, bits, size) ==
  LET ts == 2 ^ bits
      sz == IF size # 0 THEN size ELSE (ts \div 4) - 1
  IN  [ hasher |-> h, tableBits |-> bits, size |-> sz,
        index |-> [ o \in 0..(ts - 1) |-> 0 ],
        value |-> [ i \in 0..(sz - 1) |-> Junk ],
        depth |-> [ i \in 0..(sz - 1) |-> 0 ],
        info |-> [ i \in 0..(sz - 1) |-> 0 ],
        max |-> 0,
        dead |-> size >= ts \div 4 ]

\* resize (x, nOld, nNew, T): a fresh block with the first min (nOld, nNew)
\* cells copied
resize(x, nOld, nNew) ==
  [ i \in 0..(nNew - 1) |-> IF i < Min(nOld, nNew) THEN x[i] ELSE Junk ]

\* mutant: the info bytes are not carried over to the new block
modsetPackNoInfo(m) ==
  IF m.size = m.max + 1 THEN m
  ELSE [ m EXCEPT !.value = resize(m.value, m.size, m.max + 1),
                  !.depth = resize(m.depth, m.size, m.max + 1),
                  !.info = resize(m.info, 0, m.max + 1),
                  !.size = m.max + 1 ]

\* modsetPack: the modset after the call (it returns FALSE when size was
\* max + 1 already)
modsetPack(m) ==
  IF m.size = m.max + 1 THEN m
  ELSE [ m EXCEPT !.value = resize(m.value, m.size, m.max + 1),
                  !.depth = resize(m.depth, m.size, m.max + 1),
                  !.info = resize(m.info, m.size, m.max + 1),
                  !.size = m.max + 1 ]

\* the probe loop of modsetIndexFind: the offset it stops at
\* mutant: the stride without its low bit set
probeDiffPlain(m, hash) == (hash \div tableSize(m)) % tableSize(m)

\* diff = ((hash >> ms->tableBits) & ms->tableMask) | 1
probeDiff(m, hash) == BitOr((hash \div tableSize(m)) % tableSize(m), 1)

RECURSIVE probe(_, _, _, _)
probe(m, hash, offset, diff) ==
  LET index == m.index[offset]
  IN  IF index # 0 /\ m.value[index] # hash
        THEN LET d == IF diff = 0 THEN probeDiff(m, hash) ELSE diff
             IN  probe(m, hash, (offset + d) % tableSize(m), d)
        ELSE offset

\* mutant: a new entry is stored at the home slot of its hash
modsetIndexFindHome(m, hash, isAdd) ==
  LET offset == probe(m, hash, hash % tableSize(m), 0)
      index == m.index[offset]
  IN  IF index = 0 /\ isAdd
        THEN LET n == m.max + 1
                 m1 == [ m EXCEPT !.max = n, !.index[hash % tableSize(m)] = n ]
             IN  IF n >= m.size
                   THEN [ idx |-> n, ms |-> [ m1 EXCEPT !.dead = TRUE ] ]
                   ELSE [ idx |-> n, ms |-> [ m1 EXCEPT !.value[n] = hash ] ]
        ELSE [ idx |-> index, ms |-> m ]

\* mutant: a full modset is fatal to any call that may add
modsetIndexFindFull(m, hash, isAdd) ==
  LET offset == probe(m, hash, hash % tableSize(m), 0)
      index == m.index[offset]
  IN  IF isAdd /\ m.max + 1 >= m.size
        THEN [ idx |-> index, ms |-> [ m EXCEPT !.dead = TRUE ] ]
      ELSE IF index = 0 /\ isAdd
        THEN LET n == m.max + 1
             IN  [ idx |-> n,
                   ms |-> [ m EXCEPT !.max = n, !.index[offset] = n, !.value[n] = hash ] ]
        ELSE [ idx |-> index, ms |-> m ]

\* modsetIndexFind: the index returned and the modset after the call
\* (dead when the call ended in die)
modsetIndexFind(m, hash, isAdd) ==
  LET offset == probe(m, hash, hash % tableSize(m), 0)
      index == m.index[offset]
  IN  IF index = 0 /\ isAdd
        THEN LET n == m.max + 1
                 m1 == [ m EXCEPT !.max = n, !.index[offset] = n ]
             IN  IF n >= m.size
                   THEN [ idx |-> n, ms |-> [ m1 EXCEPT !.dead = TRUE ] ]
                   ELSE [ idx |-> n, ms |-> [ m1 EXCEPT !.value[n] = hash ] ]
        ELSE [ idx |-> index, ms |-> m ]

\* mutant: the increment wraps to 0
depthIncrWrap(d) == (d + 1) % (U16MAX + 1)

\* U16 *di = &ms->depth[index] ; ++*di ; if (!*di) *di = U16MAX ;
depthIncr(d) == IF (d + 1) % (U16MAX + 1) = 0 THEN U16MAX ELSE d + 1

\* the body of the loop of addSequence for one modimizer
addHash(m, hash, g16) ==
  LET r == modsetIndexFind(m, hash, TRUE)
  IN  IF r.ms.dead THEN r.ms
      ELSE [ r.ms EXCEPT !.depth[r.idx] = depthIncr(Rd(@, g16)) ]

\* addSequence: every modimizer of the sequence is added and counted
RECURSIVE addHashes(_, _, _)
addHashes(m, sq, it) ==
  LET n == modRCnext(m.hasher, it, sq)
  IN  IF ~n[1] \/ m.dead THEN m
      ELSE addHashes(addHash(m, n[3], 0), sq, n[2])

addSequence(m, sq) == addHashes(m, sq, modRCiterator(m.hasher, sq))

\* mutant: the upper limit of the depth range is inclusive
pruneKeepIncl(d, min, max) == d >= min /\ (max = 0 \/ d <= max)

\* the test of modsetDepthPrune
pruneKeep(d, min, max) == d >= min /\ (max = 0 \/ d < max)

\* the loop of modsetDepthPrune from old id i
RECURSIVE pruneLoop(_, _, _, _, _)
pruneLoop(m, i, N, min, max) ==
  IF i > N \/ m.dead THEN m
  ELSE IF pruneKeep(m.depth[i], min, max)
    THEN LET m1 == modsetIndexFind(m, m.value[i], TRUE).ms
         IN  IF m1.dead THEN m1
             ELSE pruneLoop([ m1 EXCEPT !.info[m1.max] = m1.info[i],
                                        !.depth[m1.max] = m1.depth[i] ],
                            i + 1, N, min, max)
    ELSE pruneLoop(m, i + 1, N, min, max)

modsetDepthPrune(m, min, max) ==
  pruneLoop([ m EXCEPT !.max = 0,
                       !.index = [ o \in DOMAIN m.index |-> 0 ] ],
            1, m.max, min, max)

msCopy(info) == info % 4

\* the loop of modsetMerge from id i of ms2; g16 and g8 are what
\* indeterminate depth and info cells read as
RECURSIVE mergeLoop(_, _, _, _, _)
mergeLoop(m1, m2, i, g16, g8) ==
  IF i > m2.max \/ m1.dead THEN m1
  ELSE LET r == modsetIndexFind(m1, m2.value[i], TRUE)
           index == r.idx
           a == r.ms
       IN  IF a.dead THEN a
           ELSE LET d == Min(Rd(a.depth[index], g16) + m2.depth[i], U16MAX)
                    inf == Rd(a.info[index], g8)
                    c == Min(msCopy(inf) + msCopy(m2.info[i]), 3)
                IN  mergeLoop([ a EXCEPT !.depth[index] = d,
                                         !.info[index] = BitOr(inf % 4, c) ],
                              m2, i + 1, g16, g8)

\* mutant: w is not compared
hashersDifferKF(h1, h2) == h1.k # h2.k \/ h1.factor1 # h2.factor1

\* sh1->w != sh2->w || sh1->k != sh2->k || sh1->factor1 != sh2->factor1
hashersDiffer(h1, h2) == h1.w # h2.w \/ h1.k # h2.k \/ h1.factor1 # h2.factor1

\* modsetMerge: the modset ms1 after the call (unchanged when it returns FALSE)
modsetMerge(m1, m2, g16, g8) ==
  IF hashersDiffer(m1.hasher, m2.hasher) THEN m1
  ELSE LET n == m1.max + m2.max + 1
           newSize == IF n >= tableSize(m1) \div 4 THEN (tableSize(m1) \div 4) - 1 ELSE n
           a == [ m1 EXCEPT !.value = resize(m1.value, m1.size, newSize),
                            !.depth = resize(m1.depth, m1.size, newSize),
                            !.info = resize(m1.info, m1.size, newSize),
                            !.size = newSize ]
       IN  mergeLoop(a, m2, 1, g16, g8)

\* mutant: the allocated size is written in place of max + 1
modsetWriteSize(m) ==
  [ tableBits |-> m.tableBits, size |-> m.size, hasher |-> m.hasher,
    index |-> m.index,
    value |-> [ i \in 0..m.max |-> m.value[i] ],
    depth |-> [ i \in 0..m.max |-> m.depth[i] ],
    info |-> [ i \in 0..m.max |-> m.info[i] ] ]

\* modsetWrite: the file
modsetWrite(m) ==
  [ tableBits |-> m.tableBits, size |-> m.max + 1, hasher |-> m.hasher,
    index |-> m.index,
    value |-> [ i \in 0..m.max |-> m.value[i] ],
    depth |-> [ i \in 0..m.max |-> m.depth[i] ],
    info |-> [ i \in 0..m.max |-> m.info[i] ] ]

\* modsetRead of a file
modsetRead(f) ==
  LET m == modsetCreate(f.hasher, f.tableBits, f.size)
  IN  IF m.dead THEN m
      ELSE [ m EXCEPT !.index = f.index, !.value = f.value, !.depth = f.depth,
                      !.info = f.info, !.max = f.size - 1 ]

\* msSetCopy0, msSetCopy1, msSetCopy2, msSetCopyM on an info byte
msSetCopy(info, c) ==
  IF c = 3 THEN BitOr(info, 3) ELSE BitOr(info - (info % 4), c)

\* the --setcopy command of modutils over all entries
setCopy(m, copy1min, copy2min, copyMmin) ==
  [ m EXCEPT !.info = [ u \in DOMAIN m.info |->
      IF u < 1 \/ u > m.max THEN m.info[u]
      ELSE IF m.depth[u] < copy1min THEN msSetCopy(m.info[u], 0)
      ELSE IF m.depth[u] < copy2min THEN msSetCopy(m.info[u], 1)
      ELSE IF m.depth[u] < copyMmin THEN msSetCopy(m.info[u], 2)
      ELSE msSetCopy(m.info[u], 3) ] ]

(***************************************************************************)
(* Read set (modasm.c).  A hit is the pair of a mod index and the          *)
(* orientation carried by TOPBIT: [ m |-> index, f |-> isForward ].  The   *)
(* reads are numbered from 1; slot 0 of rs->reads is burned and never      *)
(* read.  inv [m] is an offset into invSpace, or Null.                     *)
(***************************************************************************)
Null == 0 - 2

BadFlags == { "badRepeat", "badOrder10", "badOrder1", "badNoMatch",
              "badLowHit", "badLowCopy1" }

\* a Read as a zero-filled array cell holds it
ReadZero ==
  [ len |-> 0, nHit |-> 0, hit |-> << >>, dx |-> << >>, bad |-> {},
    nMiss |-> 0, contained |-> 0, nCopy |-> [ c \in 0..3 |-> 0 ] ]

\* uArrayCreate, uArrayReCreate and the cells uArray extends an array by:
\* n cells, zero-filled
uArrayReCreate(n, zero) == [ i \in 0..(n - 1) |-> zero ]

readsetCreate(m) ==
  [ ms |-> m, reads |-> << >>, totHit |-> 0,
    hasInv |-> FALSE, inv |-> << >>, invSpace |-> << >>, fault |-> FALSE ]

\* mutant: a modimizer the modset does not hold is not counted as a miss
RECURSIVE readHitsNoMiss(_, _, _, _, _)
readHitsNoMiss(m, sq, it, read, lastPos) ==
  LET n == modRCnext(m.hasher, it, sq)
  IN  IF ~n[1] THEN [ read |-> read, ms |-> m ]
      ELSE LET index == modsetIndexFind(m, n[3], FALSE).idx
           IN  IF index # 0
                 THEN readHitsNoMiss([ m EXCEPT !.depth[index] = depthIncr(@) ], sq, n[2],
                               [ read EXCEPT
                                   !.hit = Append(@, [ m |-> index, f |-> n[5] ]),
                                   !.dx = Append(@, (n[4] - lastPos) % (U16MAX + 1)),
                                   !.nHit = @ + 1 ],
                               n[4])
                 ELSE readHitsNoMiss(m, sq, n[2], read, lastPos)

\* the loop  while (modRCnext (mi, &kmer, &pos, &isForward))  of
\* readsetFileRead over one read: the read and the modset after it
RECURSIVE readHits(_, _, _, _, _)
readHits(m, sq, it, read, lastPos) ==
  LET n == modRCnext(m.hasher, it, sq)
  IN  IF ~n[1] THEN [ read |-> read, ms |-> m ]
      ELSE LET index == modsetIndexFind(m, n[3], FALSE).idx
           IN  IF index # 0
                 THEN readHits([ m EXCEPT !.depth[index] = depthIncr(@) ], sq, n[2],
                               [ read EXCEPT
                                   !.hit = Append(@, [ m |-> index, f |-> n[5] ]),
                                   !.dx = Append(@, (n[4] - lastPos) % (U16MAX + 1)),
                                   !.nHit = @ + 1 ],
                               n[4])
                 ELSE readHits(m, sq, n[2], [ read EXCEPT !.nMiss = @ + 1 ], lastPos)

\* the body of the loop  while (seqIOread (si))  for one sequence
readsetAddRead(r, sq) ==
  LET read0 == [ uArrayReCreate(1, ReadZero)[0] EXCEPT !.len = Len(sq) ]
      res == readHits(r.ms, sq, modRCiterator(r.ms.hasher, sq), read0, 0)
  IN  [ r EXCEPT !.ms = res.ms,
                 !.reads = Append(@, res.read),
                 !.totHit = @ + res.read.nHit ]

RECURSIVE readsetAddReads(_, _, _)
readsetAddReads(r, file, i) ==
  IF i > Len(file) THEN r
  ELSE readsetAddReads(readsetAddRead(r, file[i]), file, i + 1)

\* the two loops of invBuild that point inv [i] at its range of invSpace
RECURSIVE invOffset(_, _)
invOffset(m, i) ==
  IF i <= 1 THEN 0
  ELSE invOffset(m, i - 1)
       + (IF m.depth[i - 1] # 0 /\ m.depth[i - 1] < U16MAX THEN m.depth[i - 1] ELSE 0)

invPointers(m) ==
  [ i \in 0..m.max |->
      IF i >= 1 /\ m.depth[i] # 0 /\ m.depth[i] < U16MAX THEN invOffset(m, i)
      ELSE Null ]

\* the loop of invBuild over the hits of the reads, from hit j of read i:
\* nCopy is counted and  *rs->inv[y]++ = i  stores the read
RECURSIVE invFill(_, _, _)
invFill(r, i, j) ==
  IF i > Len(r.reads) THEN r
  ELSE IF j > r.reads[i].nHit THEN invFill(r, i + 1, 1)
  ELSE LET y == r.reads[i].hit[j].m
           c == msCopy(r.ms.info[y])
           r1 == [ r EXCEPT !.reads[i].nCopy[c] = @ + 1 ]
       IN  IF r.ms.depth[y] < U16MAX
             THEN IF r.inv[y] = Null \/ r.inv[y] >= r.totHit
                    THEN invFill([ r1 EXCEPT !.fault = TRUE ], i, j + 1)
                    ELSE invFill([ r1 EXCEPT !.invSpace[r.inv[y]] = i,
                                             !.inv[y] = @ + 1 ], i, j + 1)
             ELSE invFill(r1, i, j + 1)

\* mutant: inv is left where the filling loop moved it
invBuildNoReset(r) ==
  LET r0 == [ r EXCEPT
                !.inv = invPointers(r.ms),
                !.invSpace = IF r.hasInv THEN @
                               ELSE [ i \in 0..(r.totHit - 1) |-> Junk ],
                !.hasInv = TRUE,
                !.reads = [ i \in 1..Len(r.reads) |->
                              [ r.reads[i] EXCEPT !.nCopy = [ c \in 0..3 |-> 0 ] ] ] ]
  IN  invFill(r0, 1, 1)

invBuild(r) ==
  LET r0 == [ r EXCEPT
                !.inv = invPointers(r.ms),
                !.invSpace = IF r.hasInv THEN @
                               ELSE [ i \in 0..(r.totHit - 1) |-> Junk ],
                !.hasInv = TRUE,
                !.reads = [ i \in 1..Len(r.reads) |->
                              [ r.reads[i] EXCEPT !.nCopy = [ c \in 0..3 |-> 0 ] ] ] ]
  IN  [ invFill(r0, 1, 1) EXCEPT !.inv = invPointers(r.ms) ]

\* readsetFileRead of a file of sequences into a read set just created
readsetFileRead(r, file) ==
  LET r0 == [ r EXCEPT !.ms.depth = [ i \in DOMAIN @ |->
                                        IF i <= r.ms.max THEN 0 ELSE @[i] ] ]
  IN  invBuild(readsetAddReads(r0, file, 1))

\* readsetWrite: the files <root>.mod and <root>.readset
readsetWrite(r) ==
  [ mod |-> modsetWrite(r.ms), totHit |-> r.totHit, reads |-> r.reads ]

\* readsetRead of the two files
readsetRead(f) ==
  invBuild([ readsetCreate(modsetRead(f.mod)) EXCEPT
               !.totHit = f.totHit, !.reads = f.reads ])

(***************************************************************************)
(* findOverlaps.  olap is the array of Overlap, cell 0 first; omap, hmap   *)
(* and xPos are the scratch arrays.                                        *)
(***************************************************************************)
OverlapZero ==
  [ iy |-> 0, nHit |-> 0, isPlus |-> FALSE, isContained |-> FALSE,
    nBadOrder |-> 0, nBadFlip |-> 0 ]

msIsCopy1(m, i) == m.info[i] % 4 = 1

\* the loop over the k-th read of inv [hxx] onwards: ++o->nHit for each
RECURSIVE ovCount(_, _, _, _)
ovCount(r, st, hxx, k) ==
  IF k >= r.ms.depth[hxx] THEN st
  ELSE IF r.inv[hxx] = Null \/ r.inv[hxx] + k >= r.totHit
         \/ r.invSpace[r.inv[hxx] + k] = Junk
    THEN [ st EXCEPT !.fault = TRUE ]
  ELSE LET r2 == r.invSpace[r.inv[hxx] + k]
       IN  IF st.omap[r2] = 0
             THEN ovCount(r, [ st EXCEPT
                                 !.omap[r2] = Len(st.olap),
                                 !.olap = Append(@, [ OverlapZero EXCEPT
                                                        !.iy = r2, !.nHit = 1 ]) ],
                          hxx, k + 1)
             ELSE ovCount(r, [ st EXCEPT
                                 !.olap[st.omap[r2] + 1].nHit = (@ + 1) % (U16MAX + 1) ],
                          hxx, k + 1)

\* the first loop of findOverlaps, from hit j (0-based) of x
RECURSIVE ovScanX(_, _, _, _)
ovScanX(r, x, st, j) ==
  IF j >= x.nHit \/ st.fault THEN st
  ELSE LET hxx == x.hit[j + 1].m
           s1 == [ st EXCEPT !.xPos[j + 1] = st.xPos[j] + x.dx[j + 1] ]
       IN  IF msIsCopy1(r.ms, hxx)
             THEN IF s1.hmap[hxx] # 0
                    THEN ovScanX(r, x, [ s1 EXCEPT !.nRepeat = @ + 1,
                                                   !.badRepeat = TRUE ], j + 1)
                    ELSE ovScanX(r, x,
                                 ovCount(r, [ s1 EXCEPT
                                                !.hmap[hxx] = (j + 1) % (U16MAX + 1) ],
                                         hxx, 0),
                                 j + 1)
             ELSE ovScanX(r, x, s1, j + 1)

\* findOverlaps up to arraySort: the scratch arrays and olap
ovCandidates(r, ix) ==
  ovScanX(r, r.reads[ix],
          [ omap |-> uArrayReCreate(Len(r.reads) + 1, 0),
            hmap |-> uArrayReCreate(r.ms.max + 1, 0),
            xPos |-> uArrayReCreate(r.reads[ix].nHit + 1, 0),
            olap |-> << uArrayReCreate(1, OverlapZero)[0] >>,
            nRepeat |-> 0, badRepeat |-> FALSE, fault |-> FALSE ],
          0)

\* the orders qsort may leave olap in under compareOverlap: the
\* permutations of its cells with nHit descending
SortOrders(olap) ==
  { p \in Permutations(1..Len(olap)) :
      \A a \in 1..(Len(olap) - 1) : olap[p[a]].nHit >= olap[p[a + 1]].nHit }

\* mutant: every shared hit is counted as nPlus, whatever its orientation
RECURSIVE ovDirectionAllPlus(_, _, _, _)
ovDirectionAllPlus(x, y, hmap, j) ==
  IF j > y.nHit THEN << 0, 0 >>
  ELSE LET rest == ovDirectionAllPlus(x, y, hmap, j + 1)
           ihx == hmap[y.hit[j].m]
       IN  IF ihx = 0 THEN rest ELSE << rest[1] + 1, rest[2] >>

\* the pass over y's hits that counts nPlus and nMinus
RECURSIVE ovDirection(_, _, _, _)
ovDirection(x, y, hmap, j) ==
  IF j > y.nHit THEN << 0, 0 >>
  ELSE LET rest == ovDirection(x, y, hmap, j + 1)
           ihx == hmap[y.hit[j].m]
       IN  IF ihx = 0 THEN rest
           ELSE IF y.hit[j].f = x.hit[ihx].f THEN << rest[1] + 1, rest[2] >>
                ELSE << rest[1], rest[2] + 1 >>

\* the second pass over y's hits when nPlus > nMinus, from hit j with yPos the
\* position of hit j in y; w holds last, lastDiff and the fields of o.  (The
\* final  yPos += *++dy  reads one cell beyond y->dx; the sum is never used.)
RECURSIVE ovWalkPlus(_, _, _, _, _, _)
ovWalkPlus(y, hmap, xPos, j, yPos, w) ==
  IF j > y.nHit THEN w
  ELSE LET ihx == hmap[y.hit[j].m]
           lastDiff == xPos[ihx] - yPos
           w1 == IF ihx = 0 THEN w
                 ELSE [ last |-> ihx, lastDiff |-> lastDiff,
                        isContained |-> w.isContained \/ (w.last = 0 /\ lastDiff < 0),
                        nBadOrder |-> IF ihx < w.last
                                        THEN (w.nBadOrder + 1) % (U16MAX + 1)
                                        ELSE w.nBadOrder ]
       IN  ovWalkPlus(y, hmap, xPos, j + 1,
                      yPos + (IF j < y.nHit THEN y.dx[j + 1] ELSE 0), w1)

\* the second pass over y's hits when nMinus && !nPlus
RECURSIVE ovWalkMinus(_, _, _, _, _, _, _)
ovWalkMinus(x, y, hmap, xPos, j, yPos, w) ==
  IF j > y.nHit THEN w
  ELSE LET ihx == hmap[y.hit[j].m]
           lastDiff == x.len - xPos[ihx] - yPos
           w1 == IF ihx = 0 THEN w
                 ELSE [ last |-> ihx, lastDiff |-> lastDiff,
                        isContained |-> w.isContained \/ (w.last = 0 /\ lastDiff < 0),
                        nBadOrder |-> IF ihx > w.last
                                        THEN (w.nBadOrder + 1) % (U16MAX + 1)
                                        ELSE w.nBadOrder ]
       IN  ovWalkMinus(x, y, hmap, xPos, j + 1,
                       yPos + (IF j < y.nHit THEN y.dx[j + 1] ELSE 0), w1)

\* the body of the second loop of findOverlaps for the candidate o, y not bad
ovEvalOne(x, y, hmap, xPos, o) ==
  LET d == ovDirection(x, y, hmap, 1)
      nPlus == d[1]
      nMinus == d[2]
      w0 == [ last |-> 0, lastDiff |-> 0, isContained |-> o.isContained,
              nBadOrder |-> o.nBadOrder ]
  IN  IF nPlus > nMinus
        THEN LET w == ovWalkPlus(y, hmap, xPos, 1, y.dx[1], w0)
             IN  [ o EXCEPT !.isPlus = TRUE,
                            !.nBadFlip = nMinus % (U16MAX + 1),
                            !.nBadOrder = w.nBadOrder,
                            !.isContained = w.isContained
                                            /\ ~(x.len - w.lastDiff > y.len) ]
      ELSE IF nMinus # 0 /\ nPlus = 0
        THEN LET w == ovWalkMinus(x, y, hmap, xPos, 1, y.dx[1],
                                  [ w0 EXCEPT !.last = x.nHit ])
             IN  [ o EXCEPT !.isPlus = FALSE,
                            !.nBadFlip = nPlus % (U16MAX + 1),
                            !.nBadOrder = w.nBadOrder,
                            !.isContained = w.isContained
                                            /\ ~(x.len - w.lastDiff > y.len) ]
      ELSE o

\* the second loop of findOverlaps from k: cell k - 1 of the sorted olap is
\* looked at in round k
RECURSIVE ovEval(_, _, _, _, _)
ovEval(r, x, sc, e, k) ==
  IF k >= Len(e.olap) THEN [ e EXCEPT !.k = k ]
  ELSE LET o == e.olap[k]
       IN  IF o.nHit < 3 THEN [ e EXCEPT !.k = k ]
           ELSE IF r.reads[o.iy].bad # {} THEN ovEval(r, x, sc, e, k + 1)
           ELSE LET o1 == ovEvalOne(x, r.reads[o.iy], sc.hmap, sc.xPos, o)
                    isBad == o1.nBadOrder # 0 \/ o1.nBadFlip # 0
                IN  ovEval(r, x, sc,
                           [ e EXCEPT !.olap[k] = o1,
                                      !.nBad = IF isBad THEN @ + 1 ELSE @,
                                      !.nGood = IF isBad THEN @ ELSE @ + 1 ],
                           k + 1)

\* mutant: badNoMatch is set when no overlap was good
ovNoMatchNoGood(x, nGood, nBad) ==
  IF nGood = 0
    THEN { "badNoMatch" }
         \cup (IF x.nHit < 10 THEN { "badLowHit" }
               ELSE IF x.nCopy[1] < 10 THEN { "badLowCopy1" } ELSE {})
    ELSE {}

\* the flags findOverlaps sets on x after the second loop
ovNoMatch(x, nGood, nBad) ==
  IF nGood = 0 /\ nBad = 0
    THEN { "badNoMatch" }
         \cup (IF x.nHit < 10 THEN { "badLowHit" }
               ELSE IF x.nCopy[1] < 10 THEN { "badLowCopy1" } ELSE {})
    ELSE {}

\* findOverlaps (rs, x, reportLevel) for x the read ix, qsort leaving the
\* candidates in the given order: the read set after the call, the array
\* returned and the counts of the RR line
findOverlaps(r, ix, order) ==
  LET sc == ovCandidates(r, ix)
      r1 == [ r EXCEPT !.reads[ix].bad =
                IF sc.badRepeat THEN @ \cup { "badRepeat" } ELSE @ ]
      x == r1.reads[ix]
      sorted == [ a \in 1..Len(sc.olap) |-> sc.olap[order[a]] ]
      e == ovEval(r1, x, sc, [ olap |-> sorted, nGood |-> 0, nBad |-> 0, k |-> 1 ], 1)
      flags == ovNoMatch(x, e.nGood, e.nBad)
  IN  [ rs |-> [ r1 EXCEPT !.reads[ix].bad = @ \cup flags,
                           !.fault = @ \/ sc.fault ],
        ix |-> ix,
        olap |-> SubSeq(e.olap, 1, e.k),
        nGood |-> e.nGood, nBad |-> e.nBad, nRepeat |-> sc.nRepeat ]

\* the loop of markContained over the array findOverlaps returned for the
\* read ix, from cell io - 1: c is x->contained
RECURSIVE mcPick(_, _, _, _, _)
mcPick(overlaps, ix, io, maxHit, c) ==
  IF io > Len(overlaps) THEN c
  ELSE LET o == overlaps[io]
       IN  IF o.iy = ix THEN mcPick(overlaps, ix, io + 1, maxHit, c)
           ELSE IF ~o.isContained \/ o.nHit <= maxHit
             THEN mcPick(overlaps, ix, io + 1, maxHit, c)
           ELSE mcPick(overlaps, ix, io + 1, o.nHit, o.iy)

\* one round of the loop of markContained, for the read ix, qsort leaving
\* its candidates in the given order; st holds the read set and the cells of
\* the array each call returned
mcRound(st, ix, order) ==
  LET res == findOverlaps(st.rs, ix, order)
      c == mcPick(res.olap, ix, 1, 0, res.rs.reads[ix].contained)
  IN  [ rs |-> [ res.rs EXCEPT !.reads[ix].contained = c ],
        olaps |-> [ st.olaps EXCEPT ![ix] = { res.olap[k] : k \in 1..Len(res.olap) } ] ]

\* the outcomes of the round for the read ix, over the orders qsort may leave
\* its candidates in
mcRounds(st, ix) ==
  IF st.rs.fault THEN { st }
  ELSE IF st.rs.reads[ix].bad # {}
    THEN { [ st EXCEPT !.olaps[ix] = {} ] }
  ELSE { mcRound(st, ix, order) :
           order \in SortOrders(ovCandidates(st.rs, ix).olap) }

\* markContained from the read ix on, from any of the states sts
RECURSIVE mcLoop(_, _, _)
mcLoop(sts, n, ix) ==
  IF ix > n THEN sts
  ELSE mcLoop(UNION { mcRounds(st, ix) : st \in sts }, n, ix + 1)

\* markContained (rs): the outcomes it may have
markContained(r) ==
  mcLoop({ [ rs |-> r, olaps |-> [ ix \in 1..Len(r.reads) |-> {} ] ] },
         Len(r.reads), 1)

(***************************************************************************)
(* markBadReads.  nBad, lBad and badList are its three arrays, badList     *)
(* held as one row of ten cells per read.                                  *)
(***************************************************************************)
\* an order qsort may leave olap in: nHit descending, cells of equal nHit by
\* ascending cell index, or by descending cell index when rev
RECURSIVE compareOverlapOrder(_, _, _)
compareOverlapOrder(olap, left, rev) ==
  IF left = {} THEN << >>
  ELSE LET first == CHOOSE a \in left :
                      \A b \in left :
                        \/ olap[a].nHit > olap[b].nHit
                        \/ /\ olap[a].nHit = olap[b].nHit
                           /\ IF rev THEN a >= b ELSE a <= b
       IN  << first >> \o compareOverlapOrder(olap, left \ { first }, rev)

\* the loop over the array findOverlaps returned for the read ix, from cell i
RECURSIVE mbCells(_, _, _, _)
mbCells(st, olap, ix, i) ==
  IF i > Len(olap) THEN st
  ELSE LET o == olap[i]
           iy == o.iy
           n == st.nBad[iy] + 1
           st1 == IF o.nBadFlip # 0 \/ o.nBadOrder # 0
                    THEN IF n < 10 /\ st.lBad[ix] < 10
                           THEN [ st EXCEPT !.nBad[iy] = n,
                                            !.badList[ix][st.lBad[ix]] = iy,
                                            !.lBad[ix] = @ + 1 ]
                           ELSE [ st EXCEPT !.nBad[iy] = n ]
                    ELSE st
       IN  CHOOSE r \in { mbCells(s, olap, ix, i + 1) : s \in { st1 } } : TRUE

\* the loop of markBadReads that calls findOverlaps for every read, from ix
RECURSIVE mbCollect(_, _, _)
mbCollect(st, ix, rev) ==
  IF ix > Len(st.rs.reads) \/ st.rs.fault THEN st
  ELSE LET olap0 == ovCandidates(st.rs, ix).olap
           found == { findOverlaps(st.rs, ix,
                                   compareOverlapOrder(olap0, 1..Len(olap0), rev)) }
           st1(res) == [ st EXCEPT !.rs = res.rs,
                                   !.olaps[ix] = { res.olap[k] : k \in 1..Len(res.olap) } ]
           st2 == UNION { { mbCells(s, res.olap, ix, 1) : s \in { st1(res) } } :
                          res \in found }
       IN  CHOOSE r \in { mbCollect(s, ix + 1, rev) : s \in st2 } : TRUE

\* mutant: the reads flagged bad stay in the bad lists
mbRemoveNone(st, ix, i) == st

\* for (i = lBad[ix] ; i-- ; ) if the read badList[10*ix+i] is bad, the last
\* entry of the list takes its place: the loop at index i
RECURSIVE mbRemove(_, _, _)
mbRemove(st, ix, i) ==
  IF i < 0 THEN st
  ELSE LET st1 == IF st.rs.reads[st.badList[ix][i]].bad # {}
                    THEN [ st EXCEPT !.lBad[ix] = @ - 1,
                                     !.badList[ix][i] = st.badList[ix][st.lBad[ix] - 1] ]
                    ELSE st
       IN  CHOOSE r \in { mbRemove(s, ix, i - 1) : s \in { st1 } } : TRUE

\* the loop "remove bad from lists" over the reads, from ix
RECURSIVE mbRemoveAll(_, _)
mbRemoveAll(st, ix) ==
  IF ix > Len(st.rs.reads) THEN st
  ELSE CHOOSE r \in { mbRemoveAll(s, ix + 1) :
                       s \in { mbRemove(st, ix, st.lBad[ix] - 1) } } : TRUE

\* the three loops that flag: pass 1 on nBad >= 10, pass 2 on lBad >= 2,
\* pass 3 on lBad > 0; from ix
RECURSIVE mbPass(_, _, _)
mbPass(st, ix, pass) ==
  IF ix > Len(st.rs.reads) THEN st
  ELSE LET hit == IF pass = 1 THEN st.nBad[ix] >= 10
                  ELSE IF pass = 2 THEN st.lBad[ix] >= 2
                  ELSE st.lBad[ix] > 0
           flag == IF pass = 1 THEN "badOrder10" ELSE "badOrder1"
           st1 == IF hit
                    THEN [ st EXCEPT !.rs.reads[ix].bad = @ \cup { flag },
                                     !.lBad[ix] = 0 ]
                    ELSE st
       IN  CHOOSE r \in { mbPass(s, ix + 1, pass) : s \in { st1 } } : TRUE

\* markBadReads (rs): the read set after the call, and for each read the
\* cells findOverlaps returned and the bad list as collected; the state of
\* each loop is bound once it is computed and handed to the next loop
markBadReads(r, rev) ==
  LET n == Len(r.reads)
      st0 == [ rs |-> [ r EXCEPT !.reads = [ ix \in 1..n |->
                                              [ r.reads[ix] EXCEPT !.bad = {} ] ] ],
               nBad |-> [ i \in 0..n |-> 0 ],
               lBad |-> [ i \in 0..n |-> 0 ],
               badList |-> [ i \in 0..n |-> [ j \in 0..9 |-> 0 ] ],
               olaps |-> [ ix \in 1..n |-> {} ] ]
      pass1(a) == { mbRemoveAll(s, 1) : s \in { mbPass(a, 1, 1) } }
      pass2(b) == { mbRemoveAll(s, 1) : s \in { mbPass(b, 1, 2) } }
      ret(a, d) == [ rs |-> IF a.rs.fault THEN a.rs ELSE d.rs,
                     olaps |-> a.olaps,
                     lists |-> [ ix \in 1..n |->
                                   { a.badList[ix][j] : j \in 0..(a.lBad[ix] - 1) } ] ]
  IN  CHOOSE x \in UNION { UNION { UNION { { ret(a, mbPass(c, 1, 3)) } :
                                            c \in pass2(b) } :
                                    b \in pass1(a) } :
                            a \in { mbCollect(s, 1, rev) : s \in { st0 } } } : TRUE

(***************************************************************************)
(* cleanMods.                                                              *)
(***************************************************************************)
MS_MINOR == 4
MS_REPEAT == 8
MS_INTERNAL == 16
MS_RDNA == 32

\* ms->info[i] |= flag, for a flag of one bit
msSetFlag(info, flag) == IF (info \div flag) % 2 = 1 THEN info ELSE info + flag

\* the loop of cleanMods over the hits of a read, from hit j (0-based); c
\* holds the modset, isInRead, lastDepth and hhLast
RECURSIVE cleanHits(_, _, _, _)
cleanHits(c, read, w, j) ==
  IF j >= read.nHit THEN c
  ELSE LET hh == read.hit[j + 1].m
           thisDepth == c.ms.depth[hh]
           i1 == IF c.isInRead[hh] THEN msSetFlag(c.ms.info[hh], MS_REPEAT)
                 ELSE c.ms.info[hh]
           i2 == IF j # 0 /\ read.dx[j + 1] < w /\ j + 1 < read.nHit
                    /\ read.dx[j + 2] < w
                   THEN msSetFlag(i1, MS_INTERNAL) ELSE i1
           i3 == IF j # 0 /\ c.lastDepth > 2 * thisDepth
                   THEN msSetFlag(i2, MS_MINOR) ELSE i2
           m1 == [ c.ms EXCEPT !.info[hh] = i3 ]
           m2 == IF j # 0 /\ thisDepth > 2 * c.lastDepth
                   THEN [ m1 EXCEPT !.info[c.hhLast] = msSetFlag(@, MS_MINOR) ]
                   ELSE m1
       IN  cleanHits([ ms |-> m2, isInRead |-> [ c.isInRead EXCEPT ![hh] = TRUE ],
                       lastDepth |-> thisDepth, hhLast |-> hh ],
                     read, w, j + 1)

\* the body of the loop of cleanMods over the reads, for the read r points at
cleanRead(m, read) ==
  cleanHits([ ms |-> m, isInRead |-> [ i \in 0..m.max |-> FALSE ],
              lastDepth |-> 0, hhLast |-> 0 ],
            read, m.hasher.w, 0).ms

\* the loop of cleanMods over the reads: r starts at cell 0 of rs->reads and
\* moves on by one cell a round, while i runs from 1
RECURSIVE cleanLoop(_, _, _)
cleanLoop(m, reads, i) ==
  IF i > Len(reads) THEN m
  ELSE cleanLoop(cleanRead(m, IF i = 1 THEN uArrayReCreate(1, ReadZero)[0]
                              ELSE reads[i - 1]),
                 reads, i + 1)

cleanMods(r) == invBuild([ r EXCEPT !.ms = cleanLoop(r.ms, r.reads, 1) ])

(***************************************************************************)
(* The generic hash table (hash.c).  keys holds 0 in a slot never used and *)
(* REMOVED in a slot whose key was removed; values holds the index plus    *)
(* one; freeList holds the values of removed keys, the last nFree cells    *)
(* first.  Keys are long ints made from non-negative ints by HASH_INT.     *)
(***************************************************************************)
REMOVED == 1        \* (INT_MAX-1)^INT_MAX
IS5 == 12           \* (sizeof(long int)*8)/5
IS7 == 9            \* (sizeof(long int)*8)/7

RECURSIVE BitXor(_, _)
BitXor(a, b) ==
  IF a = 0 THEN b
  ELSE IF b = 0 THEN a
  ELSE (((a % 2) + (b % 2)) % 2) + 2 * BitXor(a \div 2, b \div 2)

\* #define HASH_INT(x) (_hk.i = (x)^INT_MAX, _hk)
HASH_INT(x) == BitXor(x, 2147483647)

\* for (r = x, x >>= s ; z-- ; x >>= s) r ^= x, for a key that is not negative
RECURSIVE xorShifts(_, _, _)
xorShifts(x, z, s) ==
  IF z = 0 \/ x = 0 THEN x ELSE BitXor(x, xorShifts(x \div 2 ^ s, z - 1, s))

hashMask(h) == 2 ^ h.nbits - 1

\* HASH_FUNC
HASH_FUNC(h, k) == xorShifts(k, IS5, 5) % (hashMask(h) + 1)

\* DELTA
DELTA(h, k) == BitOr(xorShifts(k, IS7, 7) % (hashMask(h) + 1), 1)

\* the loop of hashCreate that counts the bits of n - 1
RECURSIVE hashBits(_)
hashBits(n) == IF n \div 2 = 0 THEN 1 ELSE 1 + hashBits(n \div 2)

hashCreate(n) ==
  LET nbits == hashBits((IF n < 64 THEN 64 ELSE n) - 1)
  IN  [ nbits |-> nbits, n |-> 0, guard |-> 2 ^ (nbits - 1),
        keys |-> [ i \in 0..(2 ^ nbits - 1) |-> 0 ],
        values |-> [ i \in 0..(2 ^ nbits - 1) |-> Junk ],
        freeList |-> << >>, nFree |-> 0 ]

\* the slot at which the loop of hashFind and of hashRemove ends: it holds
\* the key or was never used
RECURSIVE hashSeek(_, _, _, _)
hashSeek(h, k, hash, delta) ==
  IF h.keys[hash] = k \/ h.keys[hash] = 0 THEN hash
  ELSE LET d == IF delta = 0 THEN DELTA(h, k) ELSE delta
       IN  hashSeek(h, k, (hash + d) % (hashMask(h) + 1), d)

\* hashFind: << returned bool, *index >> (the index is left alone when false)
hashFind(h, k) ==
  LET hash == hashSeek(h, k, HASH_FUNC(h, k), 0)
  IN  IF h.keys[hash] = k THEN << TRUE, h.values[hash] - 1 >> ELSE << FALSE, Junk >>

\* the loop of hashDouble over one old key: the table and the delta after it
\* (delta is set once in hashDouble and never reset between keys)
RECURSIVE hashDoublePlace(_, _, _, _, _)
hashDoublePlace(h, key, value, hash, delta) ==
  IF h.keys[hash] = 0
    THEN << [ h EXCEPT !.keys[hash] = key, !.values[hash] = value,
                       !.guard = @ - 1 ], delta >>
    ELSE LET d == IF delta = 0 THEN DELTA(h, key) ELSE delta
         IN  hashDoublePlace(h, key, value, (hash + d) % (hashMask(h) + 1), d)

\* for (i = 0, kp = oldKeys ; i < oldsize ; ++i, ++kp) of hashDouble
RECURSIVE hashDoubleFrom(_, _, _, _, _)
hashDoubleFrom(h, oldKeys, oldValues, i, delta) ==
  IF i \notin DOMAIN oldKeys THEN h
  ELSE IF oldKeys[i] # 0 /\ oldKeys[i] # REMOVED
    THEN LET r == hashDoublePlace(h, oldKeys[i], oldValues[i],
                                  HASH_FUNC(h, oldKeys[i]), delta)
         IN  IF r[1].guard < h.guard
               THEN hashDoubleFrom(r[1], oldKeys, oldValues, i + 1, r[2])
               ELSE h
    ELSE hashDoubleFrom(h, oldKeys, oldValues, i + 1, delta)

hashDouble(h) ==
  LET nbits == h.nbits + 1
      h1 == [ h EXCEPT !.nbits = nbits, !.guard = 2 ^ (nbits - 1),
                       !.keys = [ i \in 0..(2 ^ nbits - 1) |-> 0 ],
                       !.values = [ i \in 0..(2 ^ nbits - 1) |-> Junk ] ]
  IN  hashDoubleFrom(h1, h.keys, h.values, 0, 0)

\* the slot at which the loop of hashAdd ends: it is free to fill (never used
\* or REMOVED) or holds the key
RECURSIVE hashAddSeek(_, _, _, _)
hashAddSeek(h, k, hash, delta) ==
  IF h.keys[hash] = 0 \/ h.keys[hash] = REMOVED \/ h.keys[hash] = k THEN hash
  ELSE LET d == IF delta = 0 THEN DELTA(h, k) ELSE delta
       IN  hashAddSeek(h, k, (hash + d) % (hashMask(h) + 1), d)

\* mutant: the table is never doubled
hashGrowNever(h) == h

\* if (!h->guard) hashDouble (h) ;
hashGrow(h) == IF h.guard = 0 THEN hashDouble(h) ELSE h

\* hashAdd: the table after the call, the bool returned and *index
hashAdd(h0, k) ==
  LET h == hashGrow(h0)
      hash == hashAddSeek(h, k, HASH_FUNC(h, k), 0)
  IN  IF h.keys[hash] = 0 \/ h.keys[hash] = REMOVED
        THEN LET h1 == [ h EXCEPT !.guard = IF h.keys[hash] = 0 THEN @ - 1 ELSE @,
                                  !.keys[hash] = k ]
                 h2 == IF h.nFree # 0
                         THEN [ h1 EXCEPT !.values[hash] = h.freeList[h.nFree],
                                          !.freeList = SubSeq(@, 1, h.nFree - 1),
                                          !.nFree = @ - 1 ]
                         ELSE [ h1 EXCEPT !.values[hash] = h.n + 1, !.n = @ + 1 ]
             IN  [ h |-> h2, ret |-> TRUE, index |-> h2.values[hash] - 1 ]
        ELSE [ h |-> h, ret |-> FALSE, index |-> h.values[hash] - 1 ]

\* hashRemove: the table after the call and the bool returned
hashRemove(h, k) ==
  LET hash == hashSeek(h, k, HASH_FUNC(h, k), 0)
  IN  IF h.keys[hash] = k
        THEN [ h |-> [ h EXCEPT !.keys[hash] = REMOVED,
                                !.freeList = Append(@, h.values[hash]),
                                !.nFree = @ + 1 ],
               ret |-> TRUE ]
        ELSE [ h |-> h, ret |-> FALSE ]

hashCount(h) == h.n - h.nFree

(***************************************************************************)
(* assembleFromMod and assembleFrom.  A hit is held as the U32 of the code: *)
(* the mod id, plus TOPBIT when forward.  TOPBIT and U32MAX are only       *)
(* compared with and added to hits: they are held as numbers above every   *)
(* mod id of the model.  links is the sorted array of Link with its        *)
(* terminator, cell 0 first; active maps each read of hActive to the x of  *)
(* its Active cell.  Read indices are small, so that their keys have       *)
(* different first slots in hActive and it behaves as a set.  offset and   *)
(* the Layout cells are written and printed only: no test of the loop      *)
(* reads them, and they are not held.                                      *)
(***************************************************************************)
TOPBIT == 2 ^ 29
U32MAX == 2 ^ 30

msIsCopy0(m, i) == m.info[i] % 4 = 0

\* a hit of a read as the U32 of the code
hitU32(h) == IF h.f THEN h.m + TOPBIT ELSE h.m

\* h ^ TOPBIT and h & TOPMASK
flipTop(h) == IF h >= TOPBIT THEN h - TOPBIT ELSE h + TOPBIT
maskTop(h) == h % TOPBIT

\* x after the loop added dx [1..j]
RECURSIVE asmPos(_, _)
asmPos(read, j) == IF j = 0 THEN 0 ELSE asmPos(read, j - 1) + read.dx[j]

\* the Links assembleFromMod makes of read ir, in the order it makes them
asmReadLinks(r, ir) ==
  LET read == r.reads[ir]
      js == { j \in 1..read.nHit : ~msIsCopy0(r.ms, read.hit[j].m) }
      prev(j) == CHOOSE q \in js : q < j /\ \A o \in js : o < j => o <= q
      first == CHOOSE j \in js : \A o \in js : j <= o
      last == CHOOSE j \in js : \A o \in js : o <= j
      pair(j) ==
        << [ from |-> hitU32(read.hit[prev(j)]), to |-> hitU32(read.hit[j]),
             i |-> ir, x |-> asmPos(read, j) ],
           [ from |-> flipTop(hitU32(read.hit[j])),
             to |-> flipTop(hitU32(read.hit[prev(j)])),
             i |-> ir, x |-> read.len - asmPos(read, prev(j)) ] >>
      RECURSIVE pairs(_)
      pairs(j) ==
        IF j > read.nHit THEN << >>
        ELSE IF j \in js /\ j # first THEN pair(j) \o pairs(j + 1)
        ELSE pairs(j + 1)
  IN  IF js = {} THEN << >>
      ELSE << [ from |-> flipTop(hitU32(read.hit[first])), to |-> 0,
                i |-> ir, x |-> read.len ] >>
           \o pairs(1)
           \o << [ from |-> hitU32(read.hit[last]), to |-> 0,
                   i |-> ir, x |-> read.len ] >>

\* the links of the reads inv [seed] [0 .. depth-1], before they are sorted
RECURSIVE asmAllLinks(_, _, _)
asmAllLinks(r, seed, i) ==
  IF i >= r.ms.depth[seed] THEN << >>
  ELSE asmReadLinks(r, r.invSpace[r.inv[seed] + i]) \o asmAllLinks(r, seed, i + 1)

\* compareLink (a, b) < 0
compareLink(a, b) ==
  \/ a.from < b.from
  \/ a.from = b.from /\ a.to < b.to
  \/ a.from = b.from /\ a.to = b.to /\ a.i < b.i
  \/ a.from = b.from /\ a.to = b.to /\ a.i = b.i /\ a.x < b.x

\* arraySort (links, compareLink) of links that all differ
RECURSIVE asmSort(_)
asmSort(S) ==
  IF S = {} THEN << >>
  ELSE LET a == CHOOSE a \in S : \A b \in S \ { a } : compareLink(a, b)
       IN  << a >> \o asmSort(S \ { a })

\* lStart (h): the cell iForward or iReverse holds for h, cell 0 when no link
\* starts at h
lStart(links, h) ==
  IF \E j \in 1..Len(links) : links[j].from = h
    THEN CHOOSE j \in 1..Len(links) :
           links[j].from = h /\ \A q \in 1..(j - 1) : links[q].from # h
    ELSE 1

\* addActive
addActive(active, i, x) ==
  [ q \in DOMAIN active \cup { i } |-> IF q = i THEN x ELSE active[q] ]

\* the cells a loop for (l = lStart(h) ; l->from == h ; ++l) runs over
asmRun(links, h) ==
  LET j0 == lStart(links, h)
      js == { j \in j0..Len(links) : \A q \in j0..j : links[q].from = h }
  IN  SubSeq(links, j0, j0 + Cardinality(js) - 1)

\* the first loop of assembleFrom over the links that end a read at from:
\* the read is looked through for from
RECURSIVE asmInitEnds(_, _, _, _)
asmInitEnds(r, from, run, active) ==
  IF run = << >> THEN active
  ELSE IF Head(run).to # 0 THEN asmInitEnds(r, from, Tail(run), active)
  ELSE LET read == r.reads[Head(run).i]
           js == { q \in 1..read.nHit : read.hit[q].m = maskTop(from) }
           q == CHOOSE q \in js : \A o \in js : q <= o
           x == IF read.hit[q].f = (from >= TOPBIT)
                  THEN asmPos(read, q) ELSE read.len - asmPos(read, q)
       IN  asmInitEnds(r, from, Tail(run),
                       IF js = {} THEN active ELSE addActive(active, Head(run).i, x))

\* for (l = lStart(to) ; l->from == to ; ++l) if (l->to == (from ^ TOPBIT)) addActive
RECURSIVE asmInitBack(_, _, _, _)
asmInitBack(r, from, run, active) ==
  IF run = << >> THEN active
  ELSE asmInitBack(r, from, Tail(run),
                   IF Head(run).to = flipTop(from)
                     THEN addActive(active, Head(run).i,
                                    r.reads[Head(run).i].len - Head(run).x)
                     ELSE active)

\* the loop over the mods that follow from, kept in the HASH hash: a read
\* holds from once, so it is added once and the order of the mods is immaterial
RECURSIVE asmInitTos(_, _, _, _, _)
asmInitTos(r, links, from, tos, active) ==
  IF tos = {} THEN active
  ELSE LET to == CHOOSE t \in tos : \A o \in tos : t <= o
       IN  asmInitTos(r, links, from, tos \ { to },
                      asmInitBack(r, from, asmRun(links, flipTop(to)), active))

\* what the scan of the links of from starts with
AsmScanZero(active) ==
  [ bestTo |-> 0, lastTo |-> 0, dBest |-> 0, nBest |-> 0, isBestUniform |-> FALSE,
    dMin |-> 0, dSum |-> 0, nLast |-> 0, iLast |-> 0 - 1,
    dx |-> [ i \in DOMAIN active |-> 0 ] ]

\* if (lastTo && 2*nLast > hashCount(hActive) && (!dBest || dMin < dBest)) ...
asmTakeBest(c, active) ==
  IF c.lastTo # 0 /\ 2 * c.nLast > Cardinality(DOMAIN active)
       /\ (c.dBest = 0 \/ c.dMin < c.dBest)
    THEN [ c EXCEPT !.dBest = c.dMin, !.bestTo = c.lastTo, !.nBest = c.nLast,
                    !.isBestUniform = (c.dSum = c.nLast * c.dMin) ]
    ELSE c

\* one round of the loop of the main loop over the links of from, for link l
asmScanLink(l, active, c) ==
  IF l.i \notin DOMAIN active THEN c
  ELSE LET d == l.x - active[l.i]
           c1 == IF l.to # c.lastTo
                   THEN [ asmTakeBest(c, active) EXCEPT
                            !.lastTo = l.to, !.nLast = 0, !.iLast = 0 - 1,
                            !.dMin = 0, !.dSum = 0 ]
                   ELSE c
       IN  IF d > 0 /\ l.i # c1.iLast
             THEN [ c1 EXCEPT
                      !.nLast = @ + 1, !.iLast = l.i, !.dSum = @ + d,
                      !.dMin = IF @ = 0 \/ d < @ THEN d ELSE @,
                      !.dx[l.i] = d ]
             ELSE c1

\* arr (dd, n, int) after arraySort (dd, compareInt), dd holding the dx of the
\* reads S: the value with at most n of the dx below it and more than n of
\* them not above it
asmSortedDx(dx, S, n) ==
  CHOOSE v \in { dx[i] : i \in S } :
    /\ Cardinality({ i \in S : dx[i] < v }) <= n
    /\ Cardinality({ i \in S : dx[i] <= v }) > n

\* the reads whose x has passed their end leave hActive
asmDrop(r, x) == [ i \in { i \in DOMAIN x : x[i] <= r.reads[i].len } |-> x[i] ]

\* the update of x of the active reads by the step to bestTo
asmAdvance(r, active, c) ==
  IF c.isBestUniform
    THEN asmDrop(r, [ i \in DOMAIN active |-> active[i] + c.dBest ])
    ELSE LET dBest == asmSortedDx(c.dx, { i \in DOMAIN active : c.dx[i] # 0 },
                                   c.nBest \div 2)
         IN  asmDrop(r, [ i \in DOMAIN active |->
                            IF c.dx[i] = 0 \/ c.dx[i] = dBest
                              THEN active[i] + dBest
                              ELSE active[i] + c.dx[i] ])

\* if (msIsCopy1 (rs->ms, bestTo & TOPMASK)): the reads with a link from
\* from to bestTo that are not active are added, each at the x of its first
\* such link (at its later ones hashFind finds it)
asmAddNew(run, bestTo, active) ==
  LET js == { j \in 1..Len(run) : run[j].to = bestTo /\ run[j].i \notin DOMAIN active }
      new == { run[j].i : j \in js }
      first(i) == CHOOSE j \in js : run[j].i = i /\ \A q \in js : run[q].i = i => j <= q
  IN  [ i \in DOMAIN active \cup new |->
          IF i \in new THEN run[first(i)].x ELSE active[i] ]

\* the main loop of assembleFrom at the start of a round: the links of from
\* are scanned from lStart (from) with the dx of the active reads cleared
asmRound(a, from, active) ==
  [ a EXCEPT !.from = from, !.active = active,
             !.l = lStart(a.links, from), !.c = AsmScanZero(active) ]

\* assembleFromMod up to the main loop of assembleFrom: die when the seed is
\* not copy 1 or two links are the same
assembleFromMod(r, seed) ==
  LET all == asmAllLinks(r, seed, 0)
      S == { all[j] : j \in 1..Len(all) }
      links == Append(asmSort(S), [ from |-> U32MAX, to |-> 0, i |-> 0, x |-> 0 ])
      from == seed + TOPBIT
      run == asmRun(links, from)
      tos == { run[j].to : j \in 1..Len(run) } \ { 0 }
      dead == [ pc |-> "dead", seed |-> seed, links |-> << >>, from |-> 0,
                active |-> << >>, l |-> 0, c |-> AsmScanZero(<< >>) ]
  IN  IF ~msIsCopy1(r.ms, seed) \/ Cardinality(S) # Len(all)
        THEN dead
        ELSE asmRound([ dead EXCEPT !.pc = "scan", !.links = links ], from,
                      asmInitTos(r, links, from, tos,
                                 asmInitEnds(r, from, run, << >>)))

\* the main loop of assembleFrom after its loop over the links of from: the
\* final check, the exit, or the step to bestTo
assembleExtend(r, a) ==
  LET c == asmTakeBest(a.c, a.active)
      moved == asmAdvance(r, a.active, c)
  IN  IF c.nBest = 0
        THEN [ a EXCEPT !.pc = "done", !.c = c ]
        ELSE asmRound(a, c.bestTo,
                      IF msIsCopy1(r.ms, maskTop(c.bestTo))
                        THEN asmAddNew(asmRun(a.links, a.from), c.bestTo, moved)
                        ELSE moved)

(***************************************************************************)
(* State                                                                   *)
(***************************************************************************)
VARIABLES
  sh,       \* the Seqhash in use
  sq,       \* the 2-bit sequence handed to the iterator (one strand)
  strand,   \* 0: no iterator yet, 1: iterating sq, 2: iterating RevComp(sq)
  si,       \* the SeqhashRCiterator
  out,      \* per strand, the << kmer, pos, isF >> triples returned so far
  nFalse,   \* calls of modRCnext on the current iterator that returned false
  ms,       \* the current Modset of modutils
  mfile,    \* the modset file last written
  ms2,      \* the modset handed to the last modsetMerge
  pre,      \* the Modset as it was before the last operation
  lastOp,   \* the last operation on ms, its arguments and result
  nOps,     \* operations so far
  rs,       \* the Readset of modasm
  rfile,    \* the files <root>.mod and <root>.readset last written
  rseqs,    \* the sequences of the sequence file last ingested
  rop,      \* the last command of modasm
  ov,       \* what the last findOverlaps returned, for which read, and the
            \* reads as they were before that call
  mc,       \* the runs of markContained so far and, per read, the cells of
            \* the array the last run got from findOverlaps
  mb,       \* per read, the cells of the array markBadReads got from
            \* findOverlaps and the bad list it collected for the read
  ht,       \* a generic hash table
  hg,       \* the keys added to ht and not removed, each with the index its
            \* hashAdd gave, the calls of hashRemove so far and the last call and its result
  asm       \* assembleFromMod: where it is, its links, and from and the active
            \* reads of the main loop of assembleFrom

hashVars == << ht, hg, asm >>
iterVars == << sh, sq, strand, si, out, nFalse, hashVars >>
msVars == << ms, mfile, ms2, pre, lastOp, nOps >>
rsVars == << rs, rfile, rseqs, rop, ov, mc, mb >>
vars == << iterVars, msVars, rsVars >>

NoIter == [ s |-> 0, sEnd |-> 0, h |-> 0, hRC |-> 0, hashBuf |-> 0,
            fBuf |-> FALSE, iMin |-> 0, isDone |-> TRUE ]

\* the hasher of the modsets of the model
MsHasher == seqhashCreate(MaxK, MaxW, 17)

\* the keys stored: 1 and 2 are neighbours, the third shares the home slot of 1
Keys == { 1, 2, 1 + 2 ^ TableBits }

NoOp == [ op |-> "none", x |-> 0, y |-> 0 ]

\* the modset part of the state when no modset is in use
MsIdle ==
  /\ ms = modsetCreate(MsHasher, TableBits, 0)
  /\ mfile = modsetWrite(ms)
  /\ ms2 = ms
  /\ pre = ms
  /\ lastOp = NoOp
  /\ nOps = 0

NoHashCall ==
  [ op |-> "none", x |-> 0, ret |-> FALSE, index |-> 0, count |-> 0, was |-> FALSE ]

HashGhost == [ live |-> << >>, nRemoved |-> 0, nCalls |-> 0, call |-> NoHashCall ]

NoAssembly ==
  [ pc |-> "none", seed |-> 0, links |-> << >>, from |-> 0, active |-> << >>,
    l |-> 0, c |-> AsmScanZero(<< >>) ]

\* the hash table part of the state when no table is in use, and no assembly
HashIdle ==
  /\ ht = hashCreate(64)
  /\ hg = HashGhost
  /\ asm = NoAssembly

\* the iterator part of the state when no sequence is iterated
IterIdle ==
  /\ sh = MsHasher
  /\ sq = << >>
  /\ strand = 0
  /\ si = NoIter
  /\ out = << << >>, << >> >>
  /\ nFalse = 0
  /\ HashIdle

NoOverlaps ==
  [ ix |-> 0, olap |-> << >>, nGood |-> 0, nBad |-> 0, nRepeat |-> 0,
    before |-> << >> ]

NoContained == [ n |-> 0, olaps |-> << >>, before |-> << >> ]

NoBadReads == [ olaps |-> << >>, lists |-> << >> ]

\* the read set part of the state when modasm has not run
RsIdle ==
  /\ rs = readsetCreate(modsetCreate(MsHasher, TableBits, 0))
  /\ rfile = readsetWrite(rs)
  /\ rseqs = << >>
  /\ rop = "none"
  /\ ov = NoOverlaps
  /\ mc = NoContained
  /\ mb = NoBadReads

\* the sequence the current iterator runs over
CurSeq == IF strand = 2 THEN RevComp(sq) ELSE sq

InitIter ==
  /\ sh \in { seqhashCreate(k, w, seed) : k \in 1..MaxK, w \in 1..MaxW, seed \in Seeds }
  /\ sq \in SeqsUpTo(MaxLen)
  /\ strand = 0
  /\ si = NoIter
  /\ out = << << >>, << >> >>
  /\ nFalse = 0
  /\ HashIdle
  /\ MsIdle
  /\ RsIdle

\* si = modRCiterator (sh, s, len) on the sequence
IterCreate ==
  /\ strand = 0
  /\ strand' = 1
  /\ si' = modRCiterator(sh, sq)
  /\ nFalse' = 0
  /\ UNCHANGED << sh, sq, out, hashVars, msVars, rsVars >>

\* one call of modRCnext (si, &kmer, &pos, &isF)
IterNext ==
  /\ strand \in {1, 2}
  /\ nFalse < 2
  /\ LET r == modRCnext(sh, si, CurSeq)
     IN  /\ si' = r[2]
         /\ IF r[1]
              THEN /\ out' = [ out EXCEPT ![strand] = Append(@, << r[3], r[4], r[5] >>) ]
                   /\ nFalse' = nFalse
              ELSE /\ out' = out
                   /\ nFalse' = nFalse + 1
  /\ UNCHANGED << sh, sq, strand, hashVars, msVars, rsVars >>

\* the caller destroys the exhausted iterator and runs a new one over the
\* other strand of the same sequence
IterOtherStrand ==
  /\ strand = 1
  /\ nFalse > 0
  /\ strand' = 2
  /\ si' = modRCiterator(sh, RevComp(sq))
  /\ nFalse' = 0
  /\ UNCHANGED << sh, sq, out, hashVars, msVars, rsVars >>

NextIter == IterCreate \/ IterNext \/ IterOtherStrand

SpecIter == InitIter /\ [][NextIter]_vars

(***************************************************************************)
(* The minimizer iterator over a sequence.                                 *)
(***************************************************************************)
InitMinimizer ==
  /\ sh \in { seqhashCreate(k, w, seed) : k \in 1..MaxK, w \in 1..MaxW, seed \in {2, 17} }
  /\ sq \in SeqsUpTo(MaxLen)
  /\ strand = 0
  /\ si = NoIter
  /\ out = << << >>, << >> >>
  /\ nFalse = 0
  /\ HashIdle
  /\ MsIdle
  /\ RsIdle

\* si = minimizerRCiterator (sh, s, len) on the sequence
MinCreate ==
  /\ strand = 0
  /\ strand' = 1
  /\ si' = minimizerRCiterator(sh, sq)
  /\ nFalse' = 0
  /\ UNCHANGED << sh, sq, out, hashVars, msVars, rsVars >>

\* one call of minimizerRCnext (si, &u, &pos, &isF)
MinNext ==
  /\ strand = 1
  /\ nFalse < 2
  /\ LET r == minimizerRCnext(sh, si, sq)
     IN  /\ si' = r[2]
         /\ IF r[1]
              THEN /\ out' = [ out EXCEPT ![1] = Append(@, << r[3], r[4], r[5] >>) ]
                   /\ nFalse' = nFalse
              ELSE /\ out' = out
                   /\ nFalse' = nFalse + 1
  /\ UNCHANGED << sh, sq, strand, hashVars, msVars, rsVars >>

NextMinimizer == MinCreate \/ MinNext

SpecMinimizer == InitMinimizer /\ [][NextMinimizer]_vars

(***************************************************************************)
(* The modset under the commands of modutils.                              *)
(***************************************************************************)
\* what indeterminate U16 and U8 cells may read as
JunkU16 == { 0, 300 }
JunkU8 == { 0, 7 }

\* a modset file an earlier run wrote: the entries << key, depth, info >>
\* added in order to an empty modset
RECURSIVE builtModset(_, _, _)
builtModset(m, es, i) ==
  IF i > Len(es) THEN m
  ELSE LET r == modsetIndexFind(m, es[i][1], TRUE)
       IN  builtModset([ r.ms EXCEPT !.depth[r.idx] = es[i][2],
                                     !.info[r.idx] = es[i][3] ], es, i + 1)

fileOf(h, es) == modsetWrite(builtModset(modsetCreate(h, TableBits, 0), es, 1))

\* hashers that differ from MsHasher in w, in k and in factor1
OtherHashers ==
  { seqhashCreate(MaxK, MaxW - 1, 17), seqhashCreate(MaxK - 1, MaxW, 17),
    seqhashCreate(MaxK, MaxW, 2) }

\* depth and info of the entries of the files merged in
EntryKinds == { << 1, 1 >> }

OtherFiles ==
  { fileOf(MsHasher, << << k, e[1], e[2] >> >>) : k \in Keys, e \in EntryKinds }
  \cup { fileOf(MsHasher, << << 1, 10, 1 >>, << 2, 20, 1 >> >>),
         fileOf(MsHasher, << << 2, U16MAX - 1, 3 >>, << 1 + 2 ^ TableBits, U16MAX, 2 >> >>) }
  \cup { fileOf(h, << << 2, 5, 1 >> >>) : h \in OtherHashers }

\* the depth ranges of --prune and the thresholds of --setcopy
PruneRanges == { << 4, 100 >>, << 2, 0 >>, << 1, 10 >> }
CopyThresholds == { << 2, 10, 40000 >>, << 0, 0, 6 >> }

InitModset ==
  /\ IterIdle
  /\ MsIdle
  /\ RsIdle

MsStep(op, x, y, m) ==
  /\ ms' = m
  /\ pre' = ms
  /\ lastOp' = [ op |-> op, x |-> x, y |-> y ]
  /\ nOps' = nOps + 1

\* addSequence meeting one modimizer: modsetIndexFind (ms, hash, TRUE), ++depth
MsAdd ==
  /\ ~ms.dead /\ nOps < MaxOps
  /\ \E hash \in Keys, g16 \in JunkU16 :
       MsStep("add", hash, 0, addHash(ms, hash, g16))
  /\ UNCHANGED << iterVars, rsVars, mfile, ms2 >>

\* modsetIndexFind (ms, hash, FALSE)
MsFind ==
  /\ ~ms.dead /\ nOps < MaxOps
  /\ \E hash \in Keys :
       MsStep("find", hash, modsetIndexFind(ms, hash, FALSE).idx,
              modsetIndexFind(ms, hash, FALSE).ms)
  /\ UNCHANGED << iterVars, rsVars, mfile, ms2 >>

MsDepthPrune ==
  /\ ~ms.dead /\ nOps < MaxOps
  /\ \E r \in PruneRanges :
       MsStep("prune", r[1], r[2], modsetDepthPrune(ms, r[1], r[2]))
  /\ UNCHANGED << iterVars, rsVars, mfile, ms2 >>

MsPack ==
  /\ ~ms.dead /\ nOps < MaxOps
  /\ MsStep("pack", IF ms.size = ms.max + 1 THEN 0 ELSE 1, 0, modsetPack(ms))
  /\ UNCHANGED << iterVars, rsVars, mfile, ms2 >>

MsSetCopy ==
  /\ ~ms.dead /\ nOps < MaxOps
  /\ \E t \in CopyThresholds :
       MsStep("setcopy", t[1], t[2], setCopy(ms, t[1], t[2], t[3]))
  /\ UNCHANGED << iterVars, rsVars, mfile, ms2 >>

\* the --merge command: ms2 = modsetRead (f) ; modsetMerge (ms, ms2)
MsMerge ==
  /\ ~ms.dead /\ nOps < MaxOps
  /\ \E f \in OtherFiles \cup { mfile }, g16 \in JunkU16, g8 \in JunkU8 :
       /\ ~modsetRead(f).dead
       /\ ms2' = modsetRead(f)
       /\ MsStep("merge", IF hashersDiffer(ms.hasher, f.hasher) THEN 0 ELSE 1, 0,
                 modsetMerge(ms, modsetRead(f), g16, g8))
  /\ UNCHANGED << iterVars, rsVars, mfile >>

\* the --write command
MsWrite ==
  /\ ~ms.dead /\ nOps < MaxOps
  /\ mfile' = modsetWrite(ms)
  /\ MsStep("write", 0, 0, ms)
  /\ UNCHANGED << iterVars, rsVars, ms2 >>

\* the --read command of a later run, on the file written
MsRead ==
  /\ ~ms.dead /\ nOps < MaxOps
  /\ MsStep("read", 0, 0, modsetRead(mfile))
  /\ UNCHANGED << iterVars, rsVars, mfile, ms2 >>

NextModset ==
  \/ MsAdd \/ MsFind \/ MsDepthPrune \/ MsPack \/ MsSetCopy
  \/ MsMerge \/ MsWrite \/ MsRead

SpecModset == InitModset /\ [][NextModset]_vars

(***************************************************************************)
(* Merges into a modset that modasm has flagged: the modset read from a    *)
(* file whose info bytes carry MS_MINOR, MS_REPEAT, MS_INTERNAL, MS_RDNA.  *)
(***************************************************************************)
FlaggedFiles ==
  { fileOf(MsHasher, << << 1, 3, MS_REPEAT + 1 >>,
                        << 2, 4, MS_INTERNAL + MS_MINOR + 1 >> >>),
    fileOf(MsHasher, << << 1 + 2 ^ TableBits, 7, MS_RDNA + 2 >>,
                        << 1, 2, 1 >> >>),
    fileOf(MsHasher, << << 2, 6, MS_MINOR >> >>),
    fileOf(MsHasher, << << 1, 1, 1 >>, << 2, 1, 2 >> >>) }

InitMerge ==
  /\ IterIdle
  /\ RsIdle
  /\ \E f \in FlaggedFiles : ms = modsetRead(f)
  /\ mfile = modsetWrite(ms)
  /\ ms2 = ms
  /\ pre = ms
  /\ lastOp = NoOp
  /\ nOps = 0

NextMerge == MsMerge

SpecMerge == InitMerge /\ [][NextMerge]_vars

(***************************************************************************)
(* The read set under the commands of modasm: -m and -f, then -w, and -r   *)
(* in a later run.                                                         *)
(***************************************************************************)
MaxReads == 2      \* reads in a sequence file
MaxReadLen == 3    \* bases in a read

\* the hashers, the reference sequences the modset was built from by
\* modutils, and the thresholds of its --setcopy
RsSetups == { << seqhashCreate(1, 1, 17), << 0 >> >>,
              << seqhashCreate(2, 1, 17), << 0, 0, 1, 1 >> >>,
              << seqhashCreate(2, 2, 2), << 0, 1, 0, 3 >> >> }
ReadBases == { 0, 1 }

RECURSIVE ReadsOfLen(_)
ReadsOfLen(n) ==
  IF n = 0 THEN { << >> }
  ELSE { Append(s, b) : s \in ReadsOfLen(n - 1), b \in ReadBases }

ReadSeqs == UNION { ReadsOfLen(n) : n \in 0..MaxReadLen }
SeqFiles == UNION { [ 1..n -> ReadSeqs ] : n \in 0..MaxReads }

\* the modset modasm loads with -m: written by modutils after --add of a
\* reference and --setcopy
RsModset(h, ref) ==
  modsetRead(modsetWrite(setCopy(addSequence(modsetCreate(h, TableBits, 0), ref),
                                 1, 2, 3)))

InitReadset ==
  /\ IterIdle
  /\ MsIdle
  /\ \E u \in RsSetups :
       /\ rs = readsetCreate(RsModset(u[1], u[2]))
       /\ rfile = readsetWrite(readsetFileRead(rs, << >>))
  /\ rseqs = << >>
  /\ rop = "none"
  /\ ov = NoOverlaps
  /\ mc = NoContained
  /\ mb = NoBadReads

\* -f: rs = readsetCreate (ms, 1<<16) ; readsetFileRead (rs, file)
RsFileRead ==
  /\ rop = "none"
  /\ \E file \in SeqFiles :
       /\ rs' = readsetFileRead(readsetCreate(rs.ms), file)
       /\ rseqs' = file
  /\ rop' = "seqfile"
  /\ UNCHANGED << iterVars, msVars, rfile, ov, mc, mb >>

\* -w: readsetWrite (rs, root)
RsWrite ==
  /\ rs.hasInv /\ ~rs.fault
  /\ rfile' = readsetWrite(rs)
  /\ rop' = "write"
  /\ UNCHANGED << iterVars, msVars, rs, rseqs, ov, mc, mb >>

\* -r: rs = readsetRead (root)
RsRead ==
  /\ rs' = readsetRead(rfile)
  /\ rop' = "read"
  /\ UNCHANGED << iterVars, msVars, rfile, rseqs, ov, mc, mb >>

NextReadset == RsFileRead \/ RsWrite \/ RsRead

SpecReadset == InitReadset /\ [][NextReadset]_vars

(***************************************************************************)
(* The overlap engine on a read set loaded with -r.  The files were        *)
(* written by an earlier run (-m, -f, -b, -w) over reads long enough that  *)
(* any list of hits occurs; the depths of the modset are the counts of the *)
(* hits, as readsetFileRead left them.                                     *)
(***************************************************************************)
MaxHits == 4       \* hits of a read

\* the keys of the mods 1..4 of the modset
OvKeys == << 1, 2, 6, 7 >>

\* the hits of the second read: mods 1..3 in either orientation
Hits == [ m : 1..3, f : BOOLEAN ]

RECURSIVE HitLists(_)
HitLists(n) ==
  IF n = 0 THEN { << >> }
  ELSE { Append(s, h) : s \in HitLists(n - 1), h \in Hits }

\* a read with the given hits, the first at position d0 and the others 3
\* bases apart, the last k-mer followed by tail bases
readOf(hit, d0, tail, bad) ==
  [ ReadZero EXCEPT
      !.nHit = Len(hit), !.hit = hit,
      !.dx = [ j \in 1..Len(hit) |-> IF j = 1 THEN d0 ELSE 3 ],
      !.len = (IF Len(hit) = 0 THEN 0 ELSE d0 + 3 * (Len(hit) - 1))
              + MsHasher.k + tail,
      !.bad = bad ]

Fwd(ids) == [ j \in 1..Len(ids) |-> [ m |-> ids[j], f |-> TRUE ] ]
Rev(ids) == [ j \in 1..Len(ids) |-> [ m |-> ids[j], f |-> FALSE ] ]

\* read 1, read 3 and the copy class of mod 4
OvSetups ==
  { << readOf(Fwd(<< 1, 4, 2, 3 >>), 1, 1, {}),
       readOf(Rev(<< 3, 2, 1 >>), 1, 1, {}), 2 >>,
    << readOf(Fwd(<< 1, 2, 3, 4 >>), 1, 1, {}),
       readOf(Fwd(<< 1, 2, 3 >>), 1, 1, { "badOrder1" }), 1 >>,
    << readOf(Fwd(<< 1, 2, 1, 3 >>), 1, 1, {}),
       readOf(Fwd(<< 1, 2, 3 >>), 0, 4, {}), 1 >> }

\* read 2: any list of hits
SecondReads ==
  { readOf(hit, 2, 5, {}) : hit \in UNION { HitLists(n) : n \in 0..MaxHits } }

\* the files of a read set with these reads, the copy class of mod 4 being c4
OvFile(reads, c4) ==
  LET hits == UNION { { << i, j >> : j \in 1..Len(reads[i].hit) } : i \in 1..Len(reads) }
      count(m) == Cardinality({ u \in hits : reads[u[1]].hit[u[2]].m = m })
      es == [ m \in 1..Len(OvKeys) |->
                << OvKeys[m], count(m), IF m = 4 THEN c4 ELSE 1 >> ]
      tot == count(1) + count(2) + count(3) + count(4)
  IN  [ mod |-> fileOf(MsHasher, es), totHit |-> tot, reads |-> reads ]

\* read 1 with ten hits, the threshold of badLowHit, and read 3; the copy
\* class of mod 4
OvLongSetups ==
  { << readOf(Fwd(<< 4, 4, 4, 4, 4, 4, 4, 4, 4, 4 >>), 1, 1, {}),
       readOf(Fwd(<< 1, 2, 3 >>), 1, 1, {}), 2 >>,
    << readOf(Fwd(<< 1, 1, 1, 1, 1, 1, 1, 1, 1, 1 >>), 1, 1, {}),
       readOf(Fwd(<< 2, 3, 4 >>), 1, 1, {}), 1 >>,
    << readOf(Fwd(<< 1, 1, 1, 1, 1, 1, 1, 1, 1, 1 >>), 1, 1, {}),
       readOf(Fwd(<< 1, 1, 1 >>), 1, 1, {}), 1 >> }

\* read 1 in the opposite orientation to read 3 and starting inside it; the
\* copy class of mod 4
OvInsideSetups ==
  { << readOf(Rev(<< 3, 2, 1 >>), 1, 1, {}),
       readOf(Fwd(<< 1, 2, 3 >>), 5, 1, {}), 1 >>,
    << readOf(Rev(<< 3, 2, 1 >>), 1, 1, {}),
       readOf(Fwd(<< 1, 2, 3 >>), 5, 0, {}), 1 >> }

\* the files of a read set in which mod 1, of copy class 1, occurs in 65535
\* hits or more, so that its depth has saturated; the reads are those a call
\* of findOverlaps on read 1 is concerned with
OvSaturatedFile(reads) ==
  [ OvFile(reads, 1) EXCEPT !.mod.depth[1] = U16MAX ]

OvSaturatedReads ==
  << readOf(Fwd(<< 1, 2, 3 >>), 1, 1, {}), readOf(Fwd(<< 1, 2, 3, 4 >>), 2, 1, {}) >>

\* read 2 beside a read 1 of ten hits
LongSecondReads ==
  { readOf(hit, 2, 5, {}) : hit \in UNION { HitLists(n) : n \in 0..(MaxHits - 2) } }

InitOverlap ==
  /\ IterIdle
  /\ MsIdle
  /\ \/ \E u \in OvSetups, y \in SecondReads :
          /\ rfile = OvFile(<< u[1], y, u[2] >>, u[3])
          /\ rs = readsetRead(rfile)
     \/ \E u \in OvLongSetups \cup OvInsideSetups, y \in LongSecondReads :
          /\ rfile = OvFile(<< u[1], y, u[2] >>, u[3])
          /\ rs = readsetRead(rfile)
  /\ rseqs = << >>
  /\ rop = "read"
  /\ ov = NoOverlaps
  /\ mc = NoContained
  /\ mb = NoBadReads

\* -o1 ix, once in a run: findOverlaps (rs, arrp (rs->reads, ix, Read), 2)
FindOverlaps ==
  /\ rop = "read" /\ ~rs.fault
  /\ \E ix \in 1..Len(rs.reads) :
       \E order \in SortOrders(ovCandidates(rs, ix).olap) :
         \E res \in { findOverlaps(rs, ix, order) } :
           /\ rs' = res.rs
           /\ ov' = [ ix |-> ix, olap |-> res.olap, nGood |-> res.nGood,
                      nBad |-> res.nBad, nRepeat |-> res.nRepeat,
                      before |-> rs.reads ]
  /\ rop' = "overlaps"
  /\ UNCHANGED << iterVars, msVars, rfile, rseqs, mc, mb >>

NextOverlap == FindOverlaps

SpecOverlap == InitOverlap /\ [][NextOverlap]_vars

\* -r of a read set with a saturated copy-1 mod, then -o1
InitSaturated ==
  /\ IterIdle
  /\ MsIdle
  /\ \E y \in LongSecondReads :
       /\ rfile = OvSaturatedFile(<< OvSaturatedReads[1], y, OvSaturatedReads[2] >>)
       /\ rs = readsetRead(rfile)
  /\ rseqs = << >>
  /\ rop = "read"
  /\ ov = NoOverlaps
  /\ mc = NoContained
  /\ mb = NoBadReads

NextSaturated == FindOverlaps

SpecSaturated == InitSaturated /\ [][NextSaturated]_vars

(***************************************************************************)
(* markContained (-c, any number of times on a command line) on a read set *)
(* loaded with -r: three reads whose hits start 0..MaxGap bases into the   *)
(* read and end 1 or 6 bases before its end.                               *)
(***************************************************************************)
MaxGap == 2        \* position of the first hit of a read
MaxRuns == 2       \* -c options of a command line

\* a read with the given hits at any of the positions
McReads(hits) ==
  { readOf(hit, d0, tail, {}) : hit \in hits, d0 \in 0..MaxGap, tail \in { 1, 6 } }

McFirstReads == McReads({ Fwd(<< 1, 2, 3 >>), Rev(<< 3, 2, 1 >>) })

McSecondReads ==
  McReads({ Fwd(<< 1, 2, 3 >>), Fwd(<< 1, 2, 1, 3 >>), Fwd(<< 2, 1, 3 >>) })

McThirdRead == readOf(Fwd(<< 1, 2, 3, 4 >>), 1, 1, {})

InitContained ==
  /\ IterIdle
  /\ MsIdle
  /\ \E x \in McFirstReads, y \in McSecondReads :
       /\ rfile = OvFile(<< x, y, McThirdRead >>, 1)
       /\ rs = readsetRead(rfile)
  /\ rseqs = << >>
  /\ rop = "read"
  /\ ov = NoOverlaps
  /\ mc = NoContained
  /\ mb = NoBadReads

\* -c: markContained (rs)
MarkContained ==
  /\ rop \in { "read", "contained" } /\ ~rs.fault
  /\ mc.n < MaxRuns
  /\ \E res \in markContained(rs) :
       /\ rs' = res.rs
       /\ mc' = [ n |-> mc.n + 1, olaps |-> res.olaps, before |-> rs.reads ]
  /\ rop' = "contained"
  /\ UNCHANGED << iterVars, msVars, rfile, rseqs, ov, mb >>

NextContained == MarkContained

SpecContained == InitContained /\ [][NextContained]_vars

(***************************************************************************)
(* markBadReads on a read set: -r, then -b.  The reads are copies of one   *)
(* read followed by two reads that agree with it or not.                   *)
(***************************************************************************)
MaxCopies == 10

BadTailReads ==
  { readOf(Fwd(<< 1, 2, 3 >>), 1, 1, {}), readOf(Fwd(<< 1, 3, 2 >>), 1, 1, {}),
    readOf(Rev(<< 3, 2, 1 >>), 1, 1, {}), readOf(Fwd(<< 1, 2, 1, 3 >>), 1, 1, {}) }

InitBad ==
  /\ IterIdle
  /\ MsIdle
  /\ \E k \in 0..MaxCopies, y \in BadTailReads, z \in BadTailReads :
       /\ rfile = OvFile([ i \in 1..k |-> readOf(Fwd(<< 1, 2, 3 >>), 1, 1, {}) ]
                           \o << y, z >>, 1)
       /\ rs = readsetRead(rfile)
  /\ rseqs = << >>
  /\ rop = "read"
  /\ ov = NoOverlaps
  /\ mc = NoContained
  /\ mb = NoBadReads

\* -b: markBadReads (rs)
MarkBadReads ==
  /\ rop \in { "read", "badreads" } /\ ~rs.fault
  /\ \E rev \in BOOLEAN :
       \E res \in { markBadReads(rs, rev) } :
         /\ rs' = res.rs
         /\ mb' = [ olaps |-> res.olaps, lists |-> res.lists ]
  /\ rop' = "badreads"
  /\ UNCHANGED << iterVars, msVars, rfile, rseqs, ov, mc >>

NextBad == MarkBadReads

SpecBad == InitBad /\ [][NextBad]_vars

(***************************************************************************)
(* cleanMods on a read set of two reads: -r, then -C.                      *)
(***************************************************************************)
CleanReads ==
  McReads({ Fwd(<< 1, 2, 3 >>), Fwd(<< 1, 2, 1, 3 >>), Rev(<< 3, 2, 3 >>) })

InitClean ==
  /\ IterIdle
  /\ MsIdle
  /\ \E x \in CleanReads, y \in CleanReads :
       /\ rfile = OvFile(<< x, y >>, 1)
       /\ rs = readsetRead(rfile)
  /\ rseqs = << >>
  /\ rop = "read"
  /\ ov = NoOverlaps
  /\ mc = NoContained
  /\ mb = NoBadReads

\* -C: cleanMods (rs)
CleanMods ==
  /\ rop = "read" /\ ~rs.fault
  /\ rs' = cleanMods(rs)
  /\ rop' = "clean"
  /\ UNCHANGED << iterVars, msVars, rfile, rseqs, ov, mc, mb >>

NextClean == CleanMods

SpecClean == InitClean /\ [][NextClean]_vars

(***************************************************************************)
(* The generic hash table under hashAdd, hashRemove and hashFind of int    *)
(* keys, as modasm uses it for its active reads.                           *)
(***************************************************************************)
MaxHashCalls == 4   \* calls on the table after it was set up

\* the ints added, removed and looked for: 0 and 66 share their first slot in
\* a table of 64, 2 and 134 in tables of 64 and of 128
HashKeys == { 0, 66, 134 }

\* the ints a table may hold when it is handed over: one fewer than fill the
\* guard of a table of 64
HashFill == [ i \in 1..31 |-> IF i <= 28 THEN i + 7 ELSE << 0, 132, 2 >>[i - 28] ]

\* the ghost after hashAdd (h, HASH_INT(x), &index) returned r
hashAdded(g, h, x, r) ==
  [ g EXCEPT
      !.live = IF r.ret /\ x \notin DOMAIN g.live
                 THEN [ y \in DOMAIN g.live \cup { x } |->
                          IF y = x THEN r.index ELSE g.live[y] ]
                 ELSE @,
      !.call = [ op |-> "add", x |-> x, ret |-> r.ret, index |-> r.index,
                 count |-> hashCount(h), was |-> x \in DOMAIN g.live ] ]

\* the table and the ghost after the ints i..n of HashFill were added to p
RECURSIVE hashFillFrom(_, _, _)
hashFillFrom(p, i, n) ==
  IF i > n THEN p
  ELSE LET r == hashAdd(p[1], HASH_INT(HashFill[i]))
           q == << r.h, [ hashAdded(p[2], p[1], HashFill[i], r) EXCEPT !.call = NoHashCall ] >>
       IN  IF q[1].n = i THEN hashFillFrom(q, i + 1, n) ELSE q

hashFilled(n) == hashFillFrom(<< hashCreate(64), HashGhost >>, 1, n)

InitHash ==
  /\ sh = MsHasher
  /\ sq = << >>
  /\ strand = 0
  /\ si = NoIter
  /\ out = << << >>, << >> >>
  /\ nFalse = 0
  /\ MsIdle
  /\ RsIdle
  /\ \E n \in { 0, Len(HashFill) } :
       /\ ht = hashFilled(n)[1]
       /\ hg = hashFilled(n)[2]
  /\ asm = NoAssembly

\* hashAdd (h, HASH_INT(x), &index)
HashAdd ==
  /\ hg.nCalls < MaxHashCalls
  /\ \E x \in HashKeys :
       LET r == hashAdd(ht, HASH_INT(x))
       IN  /\ ht' = r.h
           /\ hg' = [ hashAdded(hg, ht, x, r) EXCEPT !.nCalls = @ + 1 ]
  /\ UNCHANGED << sh, sq, strand, si, out, nFalse, asm, msVars, rsVars >>

\* hashRemove (h, HASH_INT(x))
HashRemove ==
  /\ hg.nCalls < MaxHashCalls
  /\ \E x \in HashKeys :
       LET r == hashRemove(ht, HASH_INT(x))
       IN  /\ ht' = r.h
           /\ hg' = [ hg EXCEPT
                        !.live = IF r.ret
                                   THEN [ y \in DOMAIN hg.live \ { x } |-> hg.live[y] ]
                                   ELSE @,
                        !.nRemoved = @ + 1,
                        !.nCalls = @ + 1,
                        !.call = [ op |-> "remove", x |-> x, ret |-> r.ret, index |-> 0,
                                   count |-> hashCount(ht),
                                   was |-> x \in DOMAIN hg.live ] ]
  /\ UNCHANGED << sh, sq, strand, si, out, nFalse, asm, msVars, rsVars >>

\* hashFind (h, HASH_INT(x), &index)
HashFind ==
  /\ hg.nCalls < MaxHashCalls
  /\ \E x \in HashKeys :
       /\ ht' = ht
       /\ hg' = [ hg EXCEPT
                    !.nCalls = @ + 1,
                    !.call = [ op |-> "find", x |-> x, ret |-> hashFind(ht, HASH_INT(x))[1],
                               index |-> hashFind(ht, HASH_INT(x))[2],
                               count |-> hashCount(ht),
                               was |-> x \in DOMAIN hg.live ] ]
  /\ UNCHANGED << sh, sq, strand, si, out, nFalse, asm, msVars, rsVars >>

NextHash == HashAdd \/ HashRemove \/ HashFind

SpecHash == InitHash /\ [][NextHash]_vars

(***************************************************************************)
(* -a2: assembleFromMod on a read set read from its files, from the entry  *)
(* to the main loop of assembleFrom on.  The reads come from a circular    *)
(* sequence that holds the mods 1 2 3 4 in this order, or from its other   *)
(* strand.                                                                 *)
(***************************************************************************)
\* a read with its hits gap bases apart, the first at d0, the last k-mer
\* followed by tail bases
asmReadOf(hit, d0, gap, tail) ==
  [ ReadZero EXCEPT
      !.nHit = Len(hit), !.hit = hit,
      !.dx = [ j \in 1..Len(hit) |-> IF j = 1 THEN d0 ELSE gap ],
      !.len = d0 + gap * (Len(hit) - 1) + MsHasher.k + tail ]

AsmHitLists ==
  { Fwd(<< 2, 3, 4, 1 >>), Fwd(<< 4, 1, 2, 3 >>), Rev(<< 3, 2, 1, 4 >>),
    Fwd(<< 1, 2, 3, 4, 1 >>) }

\* the distance of the hits and the bases after the last k-mer
AsmShapes == { << MsHasher.k, 1 >>, << MsHasher.k + 1, 0 >> }

InitAssemble ==
  /\ sh = MsHasher
  /\ sq = << >>
  /\ strand = 0
  /\ si = NoIter
  /\ out = << << >>, << >> >>
  /\ nFalse = 0
  /\ ht = hashCreate(64)
  /\ hg = HashGhost
  /\ MsIdle
  /\ \E g \in AsmShapes, c4 \in 0..2, y \in AsmHitLists, u \in AsmHitLists,
        more \in 0..1 :
       /\ rfile = OvFile(<< asmReadOf(Fwd(<< 1, 2, 3, 4 >>), 1, g[1], g[2]),
                            asmReadOf(y, 1, g[1], g[2]),
                            asmReadOf(Fwd(<< 3, 4, 1, 2 >>), 1, g[1], g[2]),
                            asmReadOf(u, 1, g[1] + more, g[2]) >>, c4)
       /\ rs = readsetRead(rfile)
  /\ \E seed \in 1..rs.ms.max : asm = assembleFromMod(rs, seed)
  /\ rseqs = << >>
  /\ rop = "read"
  /\ ov = NoOverlaps
  /\ mc = NoContained
  /\ mb = NoBadReads

\* the loop over the links of from, for one link
AsmScanLink ==
  /\ asm.pc = "scan"
  /\ asm.links[asm.l].from = asm.from
  /\ asm' = [ asm EXCEPT !.l = @ + 1,
                         !.c = asmScanLink(asm.links[asm.l], asm.active, @) ]
  /\ UNCHANGED << sh, sq, strand, si, out, nFalse, ht, hg, msVars, rsVars >>

\* the rest of the round, after the last link of from
AsmExtend ==
  /\ asm.pc = "scan"
  /\ asm.links[asm.l].from # asm.from
  /\ asm' = assembleExtend(rs, asm)
  /\ UNCHANGED << sh, sq, strand, si, out, nFalse, ht, hg, msVars, rsVars >>

NextAssemble == AsmScanLink \/ AsmExtend

SpecAssemble == InitAssemble /\ [][NextAssemble]_vars

\* the process runs on: a round that can be taken is taken
SpecAssembleFair == InitAssemble /\ [][NextAssemble]_vars /\ WF_vars(NextAssemble)

(***************************************************************************)
(* The k-mers of a sequence computed directly from its bases.              *)
(***************************************************************************)
\* the forward k-mer starting at 0-based position p, first base in the high bits
RECURSIVE KmerAt(_, _, _)
KmerAt(s, p, k) ==
  IF k = 0 THEN 0 ELSE KmerAt(s, p, k - 1) * 4 + s[p + k]

\* the reverse complement of a k-mer value
RECURSIVE KmerRC(_, _)
KmerRC(x, k) ==
  IF k = 0 THEN 0 ELSE (3 - (x % 4)) * 4 ^ (k - 1) + KmerRC(x \div 4, k - 1)

\* min (hash (forward k-mer at p), hash (reverse-complement k-mer at p))
CanonHash(h, s, p) ==
  Min(seqhash(h, KmerAt(s, p, h.k)), seqhash(h, KmerRC(KmerAt(s, p, h.k), h.k)))

\* the positions whose canonical hash is 0 mod w
ModPositions(h, s) ==
  { p \in 0..(Len(s) - h.k) : CanonHash(h, s, p) % h.w = 0 }

\* C2: the calls of modRCnext so far returned the first modimizer positions
\* of the sequence, lowest first and each once (the i-th triple holds the
\* i-th smallest position whose canonical hash is 0 mod w); the k-mer of a
\* triple is the forward k-mer at its position when isForward is true and
\* its reverse complement otherwise; the iterator is done exactly when all
\* positions were returned, a call returns false only then, and a sequence
\* shorter than k returns nothing.
C2_ModIteratorContract ==
  strand \in {1, 2} =>
    LET o == out[strand]
        s == CurSeq
        P == ModPositions(sh, s)
    IN  /\ Len(o) <= Cardinality(P)
        /\ \A i \in 1..Len(o) :
             /\ o[i][2] \in P
             /\ Cardinality({ p \in P : p < o[i][2] }) = i - 1
             /\ o[i][1] = IF o[i][3] THEN KmerAt(s, o[i][2], sh.k)
                                     ELSE KmerRC(KmerAt(s, o[i][2], sh.k), sh.k)
        /\ si.isDone <=> (Len(o) = Cardinality(P))
        /\ nFalse > 0 => Len(o) = Cardinality(P)
        /\ Len(s) < sh.k => o = << >>

\* C2 witness: an exhausted iterator that returned at least two modimizers,
\* one in forward and one in reverse orientation, and skipped a position
C2_Witness ==
  /\ strand = 1
  /\ nFalse > 0
  /\ Len(out[1]) >= 2
  /\ \E i, j \in 1..Len(out[1]) : out[1][i][3] /\ ~out[1][j][3]
  /\ Len(out[1]) < Len(sq) - sh.k + 1

\* C3: once both strands were iterated to the end, every modimizer returned
\* at position p of the sequence is matched on the reverse complement by a
\* modimizer at position L-k-p with the same k-mer value.
C3_StrandIdentity ==
  (strand = 2 /\ nFalse > 0) =>
    \A i \in 1..Len(out[1]) :
      \E j \in 1..Len(out[2]) :
        /\ out[2][j][2] = Len(sq) - sh.k - out[1][i][2]
        /\ out[2][j][1] = out[1][i][1]

(***************************************************************************)
(* Properties of the modset.                                               *)
(***************************************************************************)
\* the id of a key in a modset, 0 when absent
idOf(m, key) == modsetIndexFind(m, key, FALSE).idx

keysOf(m) == { m.value[i] : i \in 1..m.max }

depthOf(m, key) == IF idOf(m, key) = 0 THEN 0 ELSE m.depth[idOf(m, key)]

copyOf(m, key) == IF idOf(m, key) = 0 THEN 0 ELSE msCopy(m.info[idOf(m, key)])

\* C1: in every modset that has not hit a fatal error, whatever finds, adds,
\* prunes, merges and packs came before, a lookup of value[i] without adding
\* returns i for every id i in 1..max.
C1_FindReturnsId ==
  ~ms.dead => \A i \in 1..ms.max : idOf(ms, ms.value[i]) = i

\* C1 witness: after a prune or a merge the modset holds two or more keys,
\* one of them pushed off its home slot by a collision
C1_Witness ==
  /\ ~ms.dead
  /\ lastOp.op \in { "prune", "merge" }
  /\ ms.max >= 2
  /\ \E i \in 1..ms.max : ms.index[ms.value[i] % tableSize(ms)] # i

\* the merge last made went through (the hashers agreed, no fatal error)
Merged == lastOp.op = "merge" /\ lastOp.x = 1 /\ ~ms.dead

\* C4: after modsetMerge (A, B) the keys of A are the union of both key sets,
\* max is their number, a key only in A keeps its depth and every key of B
\* has depth min (65535, dA + dB), dA being 0 for a key that was not in A.
C4_MergeDepths ==
  Merged =>
    /\ keysOf(ms) = keysOf(pre) \cup keysOf(ms2)
    /\ ms.max = Cardinality(keysOf(pre) \cup keysOf(ms2))
    /\ \A key \in keysOf(pre) \ keysOf(ms2) : depthOf(ms, key) = depthOf(pre, key)
    /\ \A key \in keysOf(ms2) :
         depthOf(ms, key) = Min(U16MAX, depthOf(pre, key) + depthOf(ms2, key))

\* C5: after modsetMerge (A, B) the copy class of every key of B in A is
\* min (cA + cB, 3), cA being 0 for a key that was not in A.
C5_MergeCopyClass ==
  Merged =>
    \A key \in keysOf(ms2) :
      copyOf(ms, key) = Min(copyOf(pre, key) + copyOf(ms2, key), 3)

\* the old ids that modsetDepthPrune (min, max) is to keep
Survivors == { i \in 1..pre.max :
                 lastOp.x <= pre.depth[i] /\ (lastOp.y = 0 \/ pre.depth[i] < lastOp.y) }

\* the new id of survivor i: its rank among the survivors
Rank(i) == Cardinality({ j \in Survivors : j <= i })

\* C6: after modsetDepthPrune (min, max) the entries are exactly the old
\* entries with min <= depth and (max == 0 or depth < max), renumbered
\* 1..n in their old order with value, depth and info kept, max == n, and
\* the value of a removed entry is no longer found.
C6_DepthPrune ==
  (lastOp.op = "prune" /\ ~ms.dead) =>
    /\ ms.max = Cardinality(Survivors)
    /\ \A i \in Survivors :
         /\ ms.value[Rank(i)] = pre.value[i]
         /\ ms.depth[Rank(i)] = pre.depth[i]
         /\ ms.info[Rank(i)] = pre.info[i]
    /\ \A i \in (1..pre.max) \ Survivors : idOf(ms, pre.value[i]) = 0

\* C6 witness: a prune that removed an entry and renumbered a later one
C6_Witness ==
  /\ lastOp.op = "prune"
  /\ ~ms.dead
  /\ \E i \in Survivors : Rank(i) # i
  /\ \E i \in Survivors : pre.info[i] # 0

(***************************************************************************)
(* Properties of the read set.                                             *)
(***************************************************************************)
\* the occurrences of mod m in the hit list of a read
Occ(read, m) == Cardinality({ j \in 1..Len(read.hit) : read.hit[j].m = m })

RECURSIVE SumTo(_, _)
SumTo(f, n) == IF n = 0 THEN 0 ELSE f[n] + SumTo(f, n - 1)

\* the modset depths are the counts of the hits of the reads
DepthsCounted ==
  \A m \in 1..rs.ms.max :
    rs.ms.depth[m] = SumTo([ i \in 1..Len(rs.reads) |-> Occ(rs.reads[i], m) ],
                           Len(rs.reads))

Listed(m) == rs.ms.depth[m] > 0 /\ rs.ms.depth[m] < U16MAX

\* the k-th read id of inv [m], k from 1
InvAt(m, k) == rs.invSpace[rs.inv[m] + k - 1]

\* C7: after invBuild on a read set whose depths were counted from its reads,
\* for every mod m with 0 < depth[m] < 65535 inv[m] is a range of depth[m]
\* cells inside invSpace, it lists read ids in ascending order, each read as
\* often as m occurs in its hit list, and the ranges of two mods are disjoint.
C7_InvBuild ==
  (rs.hasInv /\ ~rs.fault /\ DepthsCounted) =>
    \A m \in 1..rs.ms.max :
      Listed(m) =>
        /\ rs.inv[m] # Null
        /\ rs.inv[m] >= 0 /\ rs.inv[m] + rs.ms.depth[m] <= rs.totHit
        /\ \A k \in 1..rs.ms.depth[m] : InvAt(m, k) \in 1..Len(rs.reads)
        /\ \A k \in 1..(rs.ms.depth[m] - 1) : InvAt(m, k) <= InvAt(m, k + 1)
        /\ \A i \in 1..Len(rs.reads) :
             Cardinality({ k \in 1..rs.ms.depth[m] : InvAt(m, k) = i })
               = Occ(rs.reads[i], m)
        /\ \A n \in 1..rs.ms.max :
             (Listed(n) /\ n # m) =>
               \/ rs.inv[m] + rs.ms.depth[m] <= rs.inv[n]
               \/ rs.inv[n] + rs.ms.depth[n] <= rs.inv[m]

\* C7 witness: an inverse index built over two reads in which one mod occurs
\* once in read 1 and twice in read 2, next to the list of another mod
C7_Witness ==
  /\ rs.hasInv /\ ~rs.fault /\ DepthsCounted
  /\ Len(rs.reads) = 2
  /\ \E m, n \in 1..rs.ms.max :
       /\ m # n /\ Listed(n)
       /\ Occ(rs.reads[1], m) = 1 /\ Occ(rs.reads[2], m) = 2
       /\ << InvAt(m, 1), InvAt(m, 2), InvAt(m, 3) >> = << 1, 2, 2 >>

\* C8: after readsetFileRead there is one read per sequence of the file, and
\* for every read hit and dx hold nHit elements, nHit + nMiss is the number of
\* positions of its sequence whose canonical hash is 0 mod w, the sum of dx is
\* at most len, and totHit is the sum of nHit over the reads.
C8_FileRead ==
  rop = "seqfile" =>
    /\ Len(rs.reads) = Len(rseqs)
    /\ \A i \in 1..Len(rs.reads) :
         LET r == rs.reads[i]
         IN  /\ Len(r.hit) = r.nHit /\ Len(r.dx) = r.nHit
             /\ r.len = Len(rseqs[i])
             /\ r.nHit + r.nMiss = Cardinality(ModPositions(rs.ms.hasher, rseqs[i]))
             /\ SumTo(r.dx, Len(r.dx)) <= r.len
    /\ rs.totHit = SumTo([ i \in 1..Len(rs.reads) |-> rs.reads[i].nHit ],
                         Len(rs.reads))

\* C8 witness: a file of two reads was ingested, one read with two hits and a
\* miss, the other with no hit
C8_Witness ==
  /\ rop = "seqfile"
  /\ Len(rs.reads) = 2
  /\ rs.reads[1].nHit >= 2 /\ rs.reads[1].nMiss >= 1
  /\ rs.reads[2].nHit = 0 /\ rs.reads[2].nMiss >= 1

(***************************************************************************)
(* Properties of findOverlaps.  x is the read of the last call, y a read   *)
(* of the read set.                                                        *)
(***************************************************************************)
OvX == rs.reads[ov.ix]

Copy1(m) == msCopy(rs.ms.info[m]) = 1

\* the copy-1 mods that occur in both reads
SharedMods(x, y) == { m \in 1..rs.ms.max : Copy1(m) /\ Occ(x, m) > 0 /\ Occ(y, m) > 0 }

\* the first hit of mod m in a read
FirstAt(read, m) ==
  CHOOSE j \in 1..Len(read.hit) :
    /\ read.hit[j].m = m
    /\ \A i \in 1..(j - 1) : read.hit[i].m # m

\* the hits of y on a mod shared with x
SharedHits(x, y) == { j \in 1..Len(y.hit) : y.hit[j].m \in SharedMods(x, y) }

\* those with the orientation of x's first hit of the mod, and the others
PlusHits(x, y) ==
  { j \in SharedHits(x, y) : y.hit[j].f = x.hit[FirstAt(x, y.hit[j].m)].f }

NPlus(x, y) == Cardinality(PlusHits(x, y))
NMinus(x, y) == Cardinality(SharedHits(x, y)) - NPlus(x, y)

\* y was flagged bad when the second loop of the call reached it
BadAtEval(iy) ==
  ov.before[iy].bad # {} \/ (iy = ov.ix /\ ov.nRepeat > 0)

\* C9: for every candidate the last findOverlaps evaluated (at least 3 shared
\* hits, y not flagged bad) the record has isPlus exactly when
\* nPlus >= nMinus, and nBadFlip is the smaller of nPlus and nMinus.
C9_Orientation ==
  rop = "overlaps" =>
    \A k \in 1..Len(ov.olap) :
      LET o == ov.olap[k]
      IN  (o.nHit >= 3 /\ ~BadAtEval(o.iy)) =>
            /\ o.isPlus <=> (NPlus(OvX, rs.reads[o.iy]) >= NMinus(OvX, rs.reads[o.iy]))
            /\ o.nBadFlip = Min(NPlus(OvX, rs.reads[o.iy]), NMinus(OvX, rs.reads[o.iy]))

\* no copy-1 mod occurs twice in the read
NoRepeat(read) == \A m \in 1..rs.ms.max : Copy1(m) => Occ(read, m) <= 1

\* the shared mods come in the same order in both reads
SameOrder(x, y) ==
  \A m, n \in SharedMods(x, y) :
    (FirstAt(x, m) < FirstAt(x, n)) <=> (FirstAt(y, m) < FirstAt(y, n))

\* the case of C10 for the reads x and y: p is NPlus, q is NMinus
C10_Case(x, iy) ==
  LET y == rs.reads[iy]
  IN  /\ ov.before[iy].bad = {}
      /\ NoRepeat(x) /\ NoRepeat(y)
      /\ Cardinality(SharedMods(x, y)) >= 3
      /\ SameOrder(x, y)
      /\ NPlus(x, y) > NMinus(x, y)

\* C10: when x and a read y not flagged bad share p + q >= 3 copy-1 mods in
\* the same relative order, p with equal and q with flipped orientation,
\* p > q, and neither read repeats a copy-1 mod, the array findOverlaps (x)
\* returned holds for y a record with nHit = p + q, isPlus true,
\* nBadFlip = q and nBadOrder = 0.
C10_PlusOverlap ==
  rop = "overlaps" =>
    \A iy \in 1..Len(rs.reads) :
      C10_Case(OvX, iy) =>
        \E k \in 1..Len(ov.olap) :
          LET o == ov.olap[k]
          IN  /\ o.iy = iy
              /\ o.nHit = NPlus(OvX, rs.reads[iy]) + NMinus(OvX, rs.reads[iy])
              /\ o.isPlus
              /\ o.nBadFlip = NMinus(OvX, rs.reads[iy])
              /\ o.nBadOrder = 0

\* C10 witness: findOverlaps ran on a read x that shares three copy-1 mods in
\* the same order with another read, two in equal and one in flipped
\* orientation
C10_Witness ==
  /\ rop = "overlaps"
  /\ \E iy \in 1..Len(rs.reads) :
       /\ iy # ov.ix
       /\ C10_Case(OvX, iy)
       /\ NPlus(OvX, rs.reads[iy]) = 2
       /\ NMinus(OvX, rs.reads[iy]) = 1

\* C11: every element of the array the last findOverlaps returned is a
\* candidate read with at least 3 shared hits, the elements come in descending
\* order of shared hits, and none is the placeholder of cell 0 (nHit = 0).
C11_ReturnedPrefix ==
  (rop = "overlaps" /\ ~rs.fault) =>
    /\ \A k \in 1..Len(ov.olap) :
         ov.olap[k].nHit >= 3 /\ ov.olap[k].iy \in 1..Len(rs.reads)
    /\ \A k \in 1..(Len(ov.olap) - 1) : ov.olap[k].nHit >= ov.olap[k + 1].nHit

\* the flags the last findOverlaps set on x
OvNewFlags == OvX.bad \ ov.before[ov.ix].bad

\* a candidate was evaluated by the last findOverlaps: a read with at least 3
\* shared hits that was not flagged bad when the loop came to it
OvEvaluated ==
  \E k \in 1..Len(ov.olap) :
    /\ ov.olap[k].iy \in 1..Len(rs.reads)
    /\ ov.olap[k].nHit >= 3
    /\ ~BadAtEval(ov.olap[k].iy)

HitPos(read, j) == SumTo(read.dx, j)

\* lastDiff at the hit j of y, for x walked in the plus or the minus
\* orientation: the offset of the start of x from the start of y
LastDiffAt(x, y, j, plus) ==
  LET xp == HitPos(x, FirstAt(x, y.hit[j].m))
  IN  IF plus THEN xp - HitPos(y, j) ELSE x.len - xp - HitPos(y, j)

\* the candidate was walked in the plus orientation, or in the minus one
WalkedPlus(x, y) == NPlus(x, y) > NMinus(x, y)

WalkedMinus(x, y) == NMinus(x, y) # 0 /\ NPlus(x, y) = 0

\* the first and the last hit of y on a mod shared with x
FirstShared(x, y) == CHOOSE j \in SharedHits(x, y) : \A i \in SharedHits(x, y) : j <= i

LastShared(x, y) == CHOOSE j \in SharedHits(x, y) : \A i \in SharedHits(x, y) : i <= j

\* C20: for every candidate the last findOverlaps evaluated in the plus or in
\* the minus orientation: if lastDiff is negative at the first shared hit of
\* the walk over y's hits and x.len - lastDiff <= y.len at the last shared
\* hit, the record has isContained; if x.len - lastDiff > y.len at the last
\* shared hit, the record has not.
C20_Contained ==
  (rop = "overlaps" /\ ~rs.fault) =>
    \A k \in 1..Len(ov.olap) :
      LET o == ov.olap[k]
          y == rs.reads[o.iy]
          plus == WalkedPlus(OvX, y)
          dFirst == LastDiffAt(OvX, y, FirstShared(OvX, y), plus)
          dLast == LastDiffAt(OvX, y, LastShared(OvX, y), plus)
      IN  (/\ o.nHit >= 3 /\ o.iy \in 1..Len(rs.reads) /\ ~BadAtEval(o.iy)
           /\ (WalkedPlus(OvX, y) \/ WalkedMinus(OvX, y))) =>
            /\ (dFirst < 0 /\ OvX.len - dLast <= y.len) => o.isContained
            /\ OvX.len - dLast > y.len => ~o.isContained

(***************************************************************************)
(* Properties of markContained.                                            *)
(***************************************************************************)
\* the cells of the array the last run got for the read ix that may contain
\* it: another read, isContained set
McCands(ix) == { o \in mc.olaps[ix] : o.iy # ix /\ o.isContained }

\* C12: after markContained, for every read x without a bad flag, x.contained
\* is the id of an overlap candidate y # x with isContained set that has the
\* largest shared-hit count among them, or 0 when there is none; it is never
\* x's own id.
C12_MarkContained ==
  (rop = "contained" /\ ~rs.fault) =>
    \A ix \in 1..Len(rs.reads) :
      rs.reads[ix].bad = {} =>
        /\ rs.reads[ix].contained # ix
        /\ IF McCands(ix) = {} THEN rs.reads[ix].contained = 0
           ELSE \E o \in McCands(ix) :
                  /\ rs.reads[ix].contained = o.iy
                  /\ \A p \in McCands(ix) : p.nHit <= o.nHit

(***************************************************************************)
(* Further properties of the modset.                                       *)
(***************************************************************************)
\* C14: for the modset ms, modsetRead of the file modsetWrite (ms) wrote has
\* the same tableBits and max, the same index table, the same value, depth
\* and info for the ids 0..max and the same hasher fields.
C14_RoundTrip ==
  ~ms.dead =>
    LET r == modsetRead(modsetWrite(ms))
    IN  /\ ~r.dead
        /\ r.tableBits = ms.tableBits /\ r.max = ms.max
        /\ r.index = ms.index
        /\ \A i \in 0..ms.max :
             /\ r.value[i] = ms.value[i]
             /\ r.depth[i] = ms.depth[i]
             /\ r.info[i] = ms.info[i]
        /\ \A fld \in { "seed", "k", "w", "mask", "shift1", "factor1", "patternRC" } :
             r.hasher[fld] = ms.hasher[fld]
        /\ (lastOp.op = "write" => mfile = modsetWrite(ms))
        /\ (lastOp.op = "read" => ms = modsetRead(mfile))

\* C14 witness: a modset of two entries with depths and copy classes was
\* written and the file read back
C14_Witness ==
  /\ lastOp.op = "read" /\ ~ms.dead
  /\ mfile = modsetWrite(pre)
  /\ pre.max >= 2
  /\ \E i \in 1..pre.max : pre.depth[i] > 0 /\ pre.info[i] > 0

\* C15: when the modset is at capacity (max = size - 1), modsetIndexFind
\* with isAdd on a key it holds returns the id of the key and leaves the
\* modset as it was, without a fatal error; the call is fatal exactly for a
\* key it does not hold.
C15_AddAtCapacity ==
  /\ (~ms.dead /\ ms.max = ms.size - 1) =>
       \A key \in Keys :
         LET r == modsetIndexFind(ms, key, TRUE)
         IN  IF key \in keysOf(ms)
               THEN /\ r.ms = ms
                    /\ r.idx \in 1..ms.max /\ ms.value[r.idx] = key
               ELSE r.ms.dead
  /\ (lastOp.op = "add" /\ pre.max = pre.size - 1) =>
       (ms.dead <=> lastOp.x \notin keysOf(pre))

\* C15 witness: a key already held was added again to a modset of two or
\* more entries at capacity
C15_Witness ==
  /\ lastOp.op = "add" /\ ~ms.dead
  /\ pre.max = pre.size - 1 /\ pre.max >= 2
  /\ lastOp.x \in keysOf(pre)
  /\ \E key \in Keys \ keysOf(pre) : TRUE

\* C16: modsetMerge (A, B) returns failure when the hashers of A and B
\* differ in k, w or factor1, and then max, size, index, value, depth and
\* info of A are what they were.
C16_MergeHasherMismatch ==
  (lastOp.op = "merge"
   /\ (pre.hasher.k # ms2.hasher.k \/ pre.hasher.w # ms2.hasher.w
       \/ pre.hasher.factor1 # ms2.hasher.factor1)) =>
    /\ lastOp.x = 0
    /\ ~ms.dead
    /\ ms.max = pre.max /\ ms.size = pre.size
    /\ ms.index = pre.index /\ ms.value = pre.value
    /\ ms.depth = pre.depth /\ ms.info = pre.info

\* C16 witness: a modset with an entry was merged with a file whose hasher
\* differs only in w, and the file holds a key the modset lacks
C16_Witness ==
  /\ lastOp.op = "merge"
  /\ pre.max >= 1
  /\ pre.hasher.w # ms2.hasher.w
  /\ pre.hasher.k = ms2.hasher.k /\ pre.hasher.factor1 = ms2.hasher.factor1
  /\ keysOf(ms2) \ keysOf(pre) # {}

\* the depth cell of id i before the last operation: what it held, or any
\* value when it was never written
DepthBefore(i) ==
  IF i < pre.size /\ pre.depth[i] # Junk THEN { pre.depth[i] } ELSE JunkU16

C18_PackIdempotent ==
  (lastOp.op = "pack" /\ ~ms.dead) =>
    /\ ms.size = ms.max + 1
    /\ ms.max = pre.max /\ ms.index = pre.index
    /\ \A i \in 0..ms.max :
         /\ ms.value[i] = pre.value[i]
         /\ ms.depth[i] = pre.depth[i]
         /\ ms.info[i] = pre.info[i]
    /\ modsetPack(ms) = ms
    /\ (pre.size = pre.max + 1 => ms = pre /\ lastOp.x = 0)
    /\ (pre.size # pre.max + 1 => lastOp.x = 1)

\* C18 witness: add, pack, pack; the second modsetPack found size = max + 1
C18_Witness ==
  /\ lastOp.op = "pack" /\ lastOp.x = 0 /\ ~ms.dead
  /\ nOps = 3
  /\ pre.max = 1 /\ pre.size = 2
  /\ pre.depth[1] = 1 /\ pre.info[1] = 0

(***************************************************************************)
(* Properties of the minimizer iterator.                                   *)
(***************************************************************************)
\* the first position of the window the j-th call of minimizerRCnext chose
\* from: 0, then the position after the minimizer returned before
MinWindowStart(j) == IF j = 1 THEN 0 ELSE out[1][j - 1][2] + 1

\* the positions of that window, when the sequence holds all w of its k-mers
MinWindow(j) == MinWindowStart(j)..(MinWindowStart(j) + sh.w - 1)

MinWindowFull(j) == MinWindowStart(j) + sh.w - 1 <= Len(sq) - sh.k

\* the positions of the window whose canonical hash is the least of the window
MinTies(j) ==
  { p \in MinWindow(j) :
      \A q \in MinWindow(j) : CanonHash(sh, sq, p) <= CanonHash(sh, sq, q) }

\* C19: whenever several k-mers of the window of w canonical hashes a call of
\* minimizerRCnext chose from share the least hash, the position returned is
\* the smallest of theirs.
C19_LeftmostTie ==
  strand = 1 =>
    \A j \in 1..Len(out[1]) :
      (MinWindowFull(j) /\ Cardinality(MinTies(j)) >= 2) =>
        /\ out[1][j][2] \in MinTies(j)
        /\ \A p \in MinTies(j) : out[1][j][2] <= p

\* the j-th call of minimizerRCnext returned a position of the sequence that
\* starts a k-mer
MinPosValid(j) == out[1][j][2] \in 0..(Len(sq) - sh.k)

\* C30: every pair (u, pos) returned by minimizerRCnext, from the first call
\* on, has u equal to the smaller of the hash of the forward k-mer at pos and
\* the hash of its reverse complement, and the returned positions strictly
\* increase.
C30_MinimizerPairs ==
  strand = 1 =>
    \A j \in 1..Len(out[1]) :
      /\ MinPosValid(j)
      /\ out[1][j][1] = CanonHash(sh, sq, out[1][j][2])
      /\ j > 1 => out[1][j - 1][2] < out[1][j][2]

\* the same from the second call on, and the positions alone
MinPairsFromSecondCall ==
  strand = 1 =>
    \A j \in 2..Len(out[1]) :
      MinPosValid(j) => out[1][j][1] = CanonHash(sh, sq, out[1][j][2])

MinPositionsIncrease ==
  strand = 1 =>
    \A j \in 2..Len(out[1]) : out[1][j - 1][2] < out[1][j][2]

(***************************************************************************)
(* The probe sequence of modsetIndexFind.                                  *)
(***************************************************************************)
\* the hashes probed for: the home slots at and next to those of the keys
\* stored, each with every value of the bits the stride is made of
ProbeHashes ==
  { o + tableSize(ms) * d : o \in 0..3, d \in 0..(tableSize(ms) - 1) }

\* the slot looked at after n bounces of stride diff
ProbeSlot(hash, n, diff) == (hash + n * diff) % tableSize(ms)

\* the loop of modsetIndexFind stops at this slot: it is empty or holds the hash
ProbeStops(hash, o) == ms.index[o] = 0 \/ ms.value[ms.index[o]] = hash

\* C27: in every modset reached, for every hash, the stride of modsetIndexFind
\* is odd, the first tableSize slots of the probe sequence are all the slots
\* of the table, fewer than tableSize / 4 ids are in use, and the loop stops
\* within tableSize probes, at the first slot of the sequence that is empty
\* or holds the hash.
C27_ProbeEnds ==
  ~ms.dead =>
    /\ 4 * (ms.max + 1) <= tableSize(ms)
    /\ \A hash \in ProbeHashes :
         LET diff == probeDiff(ms, hash)
             end == probe(ms, hash, hash % tableSize(ms), 0)
         IN  /\ diff % 2 = 1
             /\ Cardinality({ ProbeSlot(hash, n, diff) : n \in 0..(tableSize(ms) - 1) })
                  = tableSize(ms)
             /\ ProbeStops(hash, end)
             /\ \E n \in 0..(tableSize(ms) - 1) :
                  /\ ProbeSlot(hash, n, diff) = end
                  /\ \A j \in 0..(n - 1) : ~ProbeStops(hash, ProbeSlot(hash, j, diff))

\* a call of modsetIndexFind that bounced off a slot holding another hash
C27_Witness ==
  /\ lastOp.op \in { "add", "find" }
  /\ ~ms.dead
  /\ pre.index[lastOp.x % tableSize(pre)] # 0
  /\ pre.value[pre.index[lastOp.x % tableSize(pre)]] # lastOp.x
  /\ probe(pre, lastOp.x, lastOp.x % tableSize(pre), 0) # lastOp.x % tableSize(pre)

(***************************************************************************)
(* Properties of the generic hash table.                                   *)
(***************************************************************************)
\* the slots of the table that hold the key of the int x
HashSlots(x) == { i \in DOMAIN ht.keys : ht.keys[i] = HASH_INT(x) }

\* C28: after any sequence of hashAdd and hashRemove calls, hashAdd on a key
\* that is stored returns false with the index the key has, the key is in one
\* slot only and hashCount is what it was before the call.
C28_AddStored ==
  (hg.call.op = "add" /\ hg.call.was) =>
    /\ ~hg.call.ret
    /\ hg.call.index = hg.live[hg.call.x]
    /\ Cardinality(HashSlots(hg.call.x)) = 1
    /\ hashCount(ht) = hg.call.count

\* C29: as long as nothing was removed, every int that was added is found by
\* hashFind with the index its hashAdd gave, also after the table doubled.
C29_FindAdded ==
  hg.nRemoved = 0 =>
    \A x \in DOMAIN hg.live : hashFind(ht, HASH_INT(x)) = << TRUE, hg.live[x] >>

(***************************************************************************)
(* Termination of the extension loop of assembleFrom.                      *)
(***************************************************************************)
\* C26: the main loop of assembleFrom ends: a round is reached in which no
\* successor mod has the support of more than half of the active reads (or
\* assembleFromMod has died before the loop).
C26_LoopEnds == <>(asm.pc \in { "done", "dead" })

(***************************************************************************)
(* The cells of a newly allocated id.                                      *)
(***************************************************************************)
\* the last operation was an add that allocated a new id
AddAllocated == lastOp.op = "add" /\ ~ms.dead /\ ms.max = pre.max + 1

\* C21: an id newly allocated by modsetIndexFind (isAdd) in addSequence had
\* depth 0 and info 0 when it was allocated, and the increment of the caller
\* leaves it with depth 1, after any adds, prunes, packs and merges.
C21_FreshIdZero ==
  AddAllocated =>
    /\ pre.depth[ms.max] = 0
    /\ pre.info[ms.max] = 0
    /\ ms.depth[ms.max] = 1

(***************************************************************************)
(* The info flags under modsetMerge.                                       *)
(***************************************************************************)
\* the bits 2..5 of an info byte: MS_MINOR, MS_REPEAT, MS_INTERNAL, MS_RDNA
InfoFlags(info) == (info \div 4) % 16

\* C22: modsetMerge (A, B) leaves the bits 2..5 of the info of every entry of
\* A as they were, and leaves the whole info byte of the entries whose key is
\* not in B.
C22_MergeKeepsFlags ==
  (lastOp.op = "merge" /\ ~ms.dead) =>
    \A i \in 1..pre.max :
      /\ InfoFlags(ms.info[i]) = InfoFlags(pre.info[i])
      /\ idOf(ms2, pre.value[i]) = 0 => ms.info[i] = pre.info[i]

(***************************************************************************)
(* The inverse index findOverlaps walks.                                   *)
(***************************************************************************)
\* inv [m] is a list of depth [m] ids of reads that hold the mod m
InvListBuilt(m) ==
  /\ rs.inv[m] # Null
  /\ \A k \in 0..(rs.ms.depth[m] - 1) :
       /\ rs.inv[m] + k < rs.totHit
       /\ rs.invSpace[rs.inv[m] + k] \in 1..Len(rs.reads)
       /\ Occ(rs.reads[rs.invSpace[rs.inv[m] + k]], m) > 0

\* C23: findOverlaps walks no inverse-index list that was not built: for every
\* copy-1 mod m of the read x, inv [m] is a list of depth [m] read ids, also
\* when the depth of a copy-1 mod has saturated at 65535.
C23_InvBuilt ==
  rop = "overlaps" =>
    /\ ~rs.fault
    /\ \A j \in 1..OvX.nHit : Copy1(OvX.hit[j].m) => InvListBuilt(OvX.hit[j].m)

(***************************************************************************)
(* Properties of markBadReads, stated over the arrays findOverlaps         *)
(* returned to it.                                                         *)
(***************************************************************************)
MbReads == 1..Len(rs.reads)

\* the reads the overlap of x with which was bad: bad order or bad flip
MbPartners(ix) ==
  { o.iy : o \in { p \in mb.olaps[ix] : p.nBadFlip # 0 \/ p.nBadOrder # 0 } }

\* how many reads counted iy as a bad partner
MbCount(iy) == Cardinality({ ix \in MbReads : iy \in MbPartners(ix) })

\* the reads flagged when the first pass is over: by findOverlaps, or badOrder10
MbBad1 == { iy \in MbReads : rs.reads[iy].bad \ { "badOrder1" } # {} }

\* the partners listed for x that survive the first removal
MbSurvive1(ix) == IF MbCount(ix) >= 10 THEN {} ELSE mb.lists[ix] \ MbBad1

\* the reads the second pass flags
MbPass2 == { ix \in MbReads : Cardinality(MbSurvive1(ix)) >= 2 }

\* the partners that survive the second removal
MbSurvive2(ix) == IF ix \in MbPass2 THEN {} ELSE MbSurvive1(ix) \ (MbBad1 \cup MbPass2)

\* the reads the third pass flags
MbPass3 == { ix \in MbReads : MbSurvive2(ix) # {} }

\* C24: markBadReads flags in three passes.  Every read counted as a bad
\* partner 10 times or more gets badOrder10; then, the flagged reads removed
\* from the lists, every read with 2 or more partners left gets badOrder1;
\* then, after a second removal, every read with a partner left gets
\* badOrder1, so both reads of a mutual bad pair that is left are flagged.
\* No other read gets either flag, no read has both, and no list holds more
\* than 10 reads.
C24_ThreePasses ==
  (rop = "badreads" /\ ~rs.fault) =>
    \A ix \in MbReads :
      /\ "badOrder10" \in rs.reads[ix].bad <=> MbCount(ix) >= 10
      /\ "badOrder1" \in rs.reads[ix].bad <=> ix \in MbPass2 \cup MbPass3
      /\ ~({ "badOrder10", "badOrder1" } \subseteq rs.reads[ix].bad)
      /\ Cardinality(mb.lists[ix]) <= 10
      /\ mb.lists[ix] \subseteq MbPartners(ix)
      /\ { iy \in MbPartners(ix) : MbCount(iy) < 10 } \subseteq mb.lists[ix]
           \/ Cardinality(mb.lists[ix]) = 10
      /\ \A iy \in MbSurvive2(ix) :
           ix \in MbSurvive2(iy) =>
             "badOrder1" \in rs.reads[ix].bad /\ "badOrder1" \in rs.reads[iy].bad

\* C24 witness: a run with a read flagged badOrder10, one with a read flagged
\* in the second pass whose partners are not flagged, one with a mutual pair
\* flagged in the third
C24_Witness ==
  /\ rop = "badreads" /\ ~rs.fault
  /\ \E ix \in MbReads :
       /\ "badOrder10" \in rs.reads[ix].bad
       /\ \E iy \in MbReads : ix \in mb.lists[iy] /\ rs.reads[iy].bad = {}

C24_WitnessSecond ==
  /\ rop = "badreads" /\ ~rs.fault
  /\ \E ix \in MbPass2 : \E iy \in MbSurvive1(ix) : rs.reads[iy].bad = {}

C24_WitnessMutual ==
  /\ rop = "badreads" /\ ~rs.fault
  /\ \E ix \in MbPass3 : \E iy \in MbSurvive2(ix) : ix \in MbSurvive2(iy) /\ ix # iy

(***************************************************************************)
(* Properties of cleanMods.                                                *)
(***************************************************************************)
msIsRepeat(info) == (info \div MS_REPEAT) % 2 = 1

\* C25: after cleanMods a mod that occurs more than once in the hit list of
\* a read has MS_REPEAT set, for each of the reads 1..n of the read set.
C25_RepeatFlag ==
  rop = "clean" =>
    \A i \in 1..Len(rs.reads) :
      \A m \in 1..rs.ms.max :
        Occ(rs.reads[i], m) > 1 => msIsRepeat(rs.ms.info[m])

====
